---------------------------- MODULE Spec2Model ----------------------------
(***************************************************************************)
(* One streamed chat turn of ollamacito: stream_chat_response's            *)
(* event_generator (backend/app/api/v1/endpoints/messages.py), the         *)
(* inference client it pulls fragments from (OllamaService.stream_chat)    *)
(* and the title generation it triggers (generate_and_update_title).       *)
(*                                                                         *)
(* Text is a sequence of characters (one-character strings, or a literal   *)
(* of the code kept as one token).  An optional column is a sequence of    *)
(* length 0 (NULL / None) or 1.  Temperatures are in tenths.               *)
(***************************************************************************)
EXTENDS Integers, Sequences, FiniteSets, TLC

-----------------------------------------------------------------------------
(* Bounds of the model *)

\* raw chunks the backend sends on one streaming call before it must end
MaxChunks == 3

\* files a project owns at most
MaxFiles == 2

\* turns streamed on one chat over separate connections
MaxTurns == 2

\* rows of the ollama_servers table
MaxServers == 2

\* models a backend lists at most
MaxModels == 1

\* readings of the clock that are told apart; later ones read as the last
MaxPasses == 2

\* calls of HealthMonitor.start() that create a task, and calls of stop()
MaxStarts == 2

MaxStops == 2

\* chats created
MaxChats == 2

\* characters of a short reply of the title model
MaxReplyLen == 3

\* calls of generate_and_update_title on one chat
MaxInvocations == 2

-----------------------------------------------------------------------------
(* Optional values *)

None == <<>>

Some(x) == <<x>>

IsNone(o) == o = <<>>

Get(o) == o[1]

-----------------------------------------------------------------------------
(* Program constants *)

\* messages.py:269, in tenths (0.7)
DefaultTemperature == 7

\* messages.py:280
DefaultMaxTokens == 2048

\* messages.py:52 and ollama_service.py:286: the placeholder title
NewChat == <<"N", "e", "w", " ", "C", "h", "a", "t">>

\* messages.py:88
max_attempts == 2

-----------------------------------------------------------------------------
(* Parameter cascade: messages.py:260-280 *)

\* "if chat_settings.temperature:" instead of "is not None": 0.0 falls through
ResolveTemperatureTruthy(chat_settings, project, global_settings) ==
    IF ~IsNone(chat_settings) /\ ~IsNone(Get(chat_settings).temperature)
       /\ Get(Get(chat_settings).temperature) # 0
    THEN Get(Get(chat_settings).temperature)
    ELSE IF ~IsNone(project) /\ ~IsNone(Get(project).temperature)
            /\ Get(Get(project).temperature) # 0
    THEN Get(Get(project).temperature)
    ELSE IF ~IsNone(global_settings)
    THEN Get(global_settings).default_temperature
    ELSE DefaultTemperature

ResolveTemperature(chat_settings, project, global_settings) ==
    IF ~IsNone(chat_settings) /\ ~IsNone(Get(chat_settings).temperature)
    THEN Get(Get(chat_settings).temperature)
    ELSE IF ~IsNone(project) /\ ~IsNone(Get(project).temperature)
    THEN Get(Get(project).temperature)
    ELSE IF ~IsNone(global_settings)
    THEN Get(global_settings).default_temperature
    ELSE DefaultTemperature

ResolveMaxTokens(chat_settings, project, global_settings) ==
    IF ~IsNone(chat_settings) /\ ~IsNone(Get(chat_settings).max_tokens)
    THEN Get(Get(chat_settings).max_tokens)
    ELSE IF ~IsNone(project) /\ ~IsNone(Get(project).max_tokens)
    THEN Get(Get(project).max_tokens)
    ELSE IF ~IsNone(global_settings)
    THEN Get(global_settings).default_max_tokens
    ELSE DefaultMaxTokens

-----------------------------------------------------------------------------
(* Context assembly: messages.py:291-362 *)

RECURSIVE Join(_, _)
\* sep.join(parts)
Join(parts, sep) ==
    IF parts = <<>> THEN <<>>
    ELSE IF Len(parts) = 1 THEN parts[1]
    ELSE parts[1] \o sep \o Join(Tail(parts), sep)

\* str(file.content) if file.content is not None else ""
FileContent(file) == IF IsNone(file.content) THEN <<>> ELSE Get(file.content)

\* f"[File: {filename}]\n{file_content}\n[End of File]"
FileBlock(file) ==
    <<"[File: ", file.filename, "]", "\n">> \o FileContent(file)
        \o <<"\n", "[End of File]">>

\* a Python string is truthy when it is neither None nor empty
Truthy(optText) == ~IsNone(optText) /\ Get(optText) # <<>>

InstructionParts(project) ==
    IF ~IsNone(project) /\ Truthy(Get(project).custom_instructions)
    THEN << <<"Project Context:">>, Get(Get(project).custom_instructions), <<>> >>
    ELSE <<>>

FileParts(files) ==
    IF files # <<>>
    THEN << <<"Project Files:">>,
            Join([i \in 1..Len(files) |-> FileBlock(files[i])], <<"\n", "\n">>),
            <<>> >>
    ELSE <<>>

\* the files header is appended even when the project owns no file
SystemPromptPartsAlways(project, has_project_id, files) ==
    InstructionParts(project)
        \o (IF has_project_id
            THEN << <<"Project Files:">>,
                    Join([i \in 1..Len(files) |-> FileBlock(files[i])], <<"\n", "\n">>),
                    <<>> >>
            ELSE <<>>)

\* system_prompt_parts after lines 297-347
SystemPromptParts(project, has_project_id, files) ==
    InstructionParts(project)
        \o (IF has_project_id THEN FileParts(files) ELSE <<>>)

Msg(role, content) == [role |-> role, content |-> content]

\* the system element is appended after the history, not inserted before it
OllamaMessagesSystemAppended(history, parts, message) ==
    [i \in 1..Len(history) |-> Msg(history[i].role, history[i].content)]
        \o (IF parts # <<>> THEN << Msg("system", Join(parts, <<"\n">>)) >> ELSE <<>>)
        \o << Msg("user", message) >>

\* ollama_messages after lines 292-362
OllamaMessages(history, parts, message) ==
    (IF parts # <<>> THEN << Msg("system", Join(parts, <<"\n">>)) >> ELSE <<>>)
        \o [i \in 1..Len(history) |-> Msg(history[i].role, history[i].content)]
        \o << Msg("user", message) >>

-----------------------------------------------------------------------------
(* Inference client failures: ollama_service.py:194-200 *)

\* str(e).lower() of what the ollama SDK raised, as a sequence of phrases
BackendErrors ==
    { <<"connection refused">>,
      <<"model", "not found">>,
      <<"model", "does not exist">> }

Contains(text, phrase) == \E i \in 1..Len(text) : text[i] = phrase

\* ollama_service.py:194-200: the exception stream_chat raises for backend error e
ClassifyError(e) ==
    IF Contains(e, "not found") \/ Contains(e, "does not exist")
    THEN [type |-> "OllamaModelNotFoundError", str |-> "Ollama model not found"]
    ELSE [type |-> "OllamaConnectionError", str |-> "Unable to connect to Ollama at url"]

NoException == [type |-> "none", str |-> ""]

\* what a failing storage call (execute, flush, commit) raises
StorageError == [type |-> "Exception", str |-> "storage failure"]

-----------------------------------------------------------------------------
(* Wire events: the JSON object of each "data:" line, a key absent is None *)

\* messages.py:411
ContentEvent(chunk) ==
    [content |-> Some(chunk), done |-> Some(FALSE), error |-> None, detail |-> None]

\* messages.py:439
DoneEvent ==
    [content |-> Some(<<>>), done |-> Some(TRUE), error |-> None, detail |-> None]

\* messages.py:237
ChatNotFoundEvent ==
    [content |-> None, done |-> None, error |-> Some("Chat not found"), detail |-> None]

\* messages.py:444-449
ConnectionErrorEvent ==
    [content |-> None, done |-> None,
     error |-> Some("Unable to connect to Ollama"),
     detail |-> Some("Please ensure Ollama is running")]

\* messages.py:453
InternalErrorEvent(e) ==
    [content |-> None, done |-> None,
     error |-> Some("Internal server error"), detail |-> Some(e.str)]

IsDone(ev) == ev.done = Some(TRUE)

IsError(ev) == ~IsNone(ev.error)

IsTerminal(ev) == IsDone(ev) \/ IsError(ev)

IsContent(ev) == ev.done = Some(FALSE)

-----------------------------------------------------------------------------
(* Title clean-up: ollama_service.py:281-296 *)

\* ollama_service.py:292
MaxTitleLen == 50

IsSpace(c) == c \in {" ", "\n", "\t", "\r"}

RECURSIVE LStrip(_)
LStrip(t) == IF t # <<>> /\ IsSpace(Head(t)) THEN LStrip(Tail(t)) ELSE t

RECURSIVE RStrip(_)
RStrip(t) ==
    IF t # <<>> /\ IsSpace(t[Len(t)]) THEN RStrip(SubSeq(t, 1, Len(t) - 1)) ELSE t

\* str.strip()
Strip(t) == RStrip(LStrip(t))

\* str.replace(c, "")
Remove(t, c) == SelectSeq(t, LAMBDA x : x # c)

\* str.replace(c, d) for single characters
Replace(t, c, d) == [i \in 1..Len(t) |-> IF t[i] = c THEN d ELSE t[i]]

\* ollama_service.py:282-296: the title returned for the model's raw content
CleanTitle(raw) ==
    LET stripped == Strip(raw)
        cleaned  == Strip(Replace(Remove(Remove(stripped, "\""), "'"), "\n", " "))
    IN  IF stripped = <<>> THEN NewChat
        ELSE IF Len(cleaned) > MaxTitleLen
        THEN Strip(SubSeq(cleaned, 1, MaxTitleLen))
        ELSE cleaned

-----------------------------------------------------------------------------
(* Inputs the model draws from *)

\* chat_settings rows (models/settings.py:70-96), temperature in tenths
ChatSettingsRows ==
    [temperature : {None, Some(0), Some(10)}, max_tokens : {None, Some(256)}]

\* the files a project may own, in created_at order (models/project.py:62-82)
ProjectFiles ==
    { [filename |-> "f1", content |-> Some(<<"x">>)],
      [filename |-> "f2", content |-> None] }

FileLists == UNION { [1..n -> ProjectFiles] : n \in 0..MaxFiles }

\* projects rows (models/project.py:15-56) with their files
ProjectRows ==
    [temperature : {None, Some(0), Some(12)},
     max_tokens : {None, Some(512)},
     custom_instructions : {None, Some(<<>>), Some(<<"i">>)},
     files : FileLists]

\* the settings row (models/settings.py:15-61)
GlobalRows == { [default_temperature |-> 5, default_max_tokens |-> 1024] }

\* earlier turns of the conversation
Histories ==
    { <<>>,
      << [role |-> "user", content |-> <<"h">>, turn |-> 0],
         [role |-> "assistant", content |-> <<"r">>, turn |-> 0] >> }

Titles == { NewChat, <<"T">> }

\* the message query parameter (min_length=1)
UserMessages == { <<"q">>, <<"q", "?">> }

\* non-empty content of one streamed chunk
Fragments == { <<"a">>, <<"b", "c">> }

\* raw chunks of the SDK's stream: no "message" key, empty content, content
RawChunks ==
    { [message |-> None] }
        \cup { [message |-> Some(c)] : c \in {<<>>} \cup Fragments }

\* raw content of the title model's reply
RawTitles ==
    { <<" ">>, <<"'", "'">>, <<" ", "'", "W", "'", "\n">>, NewChat }

-----------------------------------------------------------------------------
(* State *)

VARIABLES
    dbChat,            \* committed chats row of chat_id: None or Some([title, model])
    dbChatSettings,    \* committed chat_settings row of the chat, or None
    dbProject,         \* committed project of the chat (chat.project_id), or None
    dbGlobal,          \* committed settings row id = 1, or None
    dbMessages,        \* committed messages rows of the chat, by created_at
    enable_auto_title, \* settings.enable_auto_title
    message,           \* the request's message
    session,           \* "none", "open", "closed"
    pending,           \* rows the session has flushed and not committed
    pendingTitle,      \* chat.title set in the session and not committed, or None
    pc,                \* where event_generator stands
    chat,              \* the loaded Chat, or None
    temperature,       \* resolved temperature, None before it is resolved
    max_tokens,        \* resolved max_tokens, None before it is resolved
    ollama_messages,   \* the list sent to the backend
    full_response,     \* the accumulator
    chunk,             \* the fragment stream_chat has yielded, not yet relayed
    fragments,         \* every fragment stream_chat has yielded so far
    pulled,            \* raw chunks read from the backend's stream
    stream,            \* "unopened", "open", "exhausted", "failed", "abandoned"
    exc,               \* the exception raised in the generator's try block
    events,            \* events handed to the caller
    disconnected,      \* the caller closed the stream
    backendCalls,      \* client.chat calls made: <<streaming, title>>
    attempt,           \* title attempt in progress, 0 outside the retry loop
    title              \* the title generate_chat_title returned, or None

dbVars == << dbChat, dbChatSettings, dbProject, dbGlobal, dbMessages >>

inputVars == << enable_auto_title, message >>

resolveVars == << chat, temperature, max_tokens, ollama_messages >>

streamVars == << full_response, chunk, fragments, pulled, stream >>

titleVars == << attempt, title >>

\* connections that stream a turn on the one chat
Connections == 1..MaxTurns

VARIABLES
    turns,             \* per connection: where its event_generator stands and
                       \* what its session holds
    chatTitle,         \* committed chats.title of the chat the turns share
    assistantRows,     \* committed messages rows of that chat with role assistant
    titleRuns,         \* times the retry loop of generate_and_update_title was entered
    titleWrites        \* commits that stored a generated title

raceVars == << turns, chatTitle, assistantRows, titleRuns, titleWrites >>

VARIABLES
    servers,           \* committed ollama_servers rows, by id
    now,               \* datetime.now(timezone.utc)
    hmPc,              \* where _monitor_loop stands
    hmSession,         \* rows the pass's session holds, by id
    hmQueue,           \* ids the for loop of line 80 has not reached
    hmLoaded,          \* rows the pass's query returned, by id
    probed,            \* per id, the backend's condition when the pass checked it
    hmLast             \* how the last pass ended

VARIABLES
    running,           \* HealthMonitor._running
    hmTasks,           \* tasks running _monitor_loop that have not finished
    hmStarts,          \* tasks start() has created
    hmStops,           \* calls of stop()
    cancelRequested,   \* cancel() was called on _task and is not yet delivered
    stopPc,            \* where a call of stop() stands
    hmLog              \* what start() or stop() logged last

taskVars ==
    << running, hmTasks, hmStarts, hmStops, cancelRequested, stopPc, hmLog >>

monitorVars ==
    << servers, now, hmPc, hmSession, hmQueue, hmLoaded, probed, hmLast,
       taskVars >>

VARIABLES
    response,          \* what the last request to the server or chat endpoints
                       \* was answered
    chatTable,         \* rows of chats: each one's ollama_server_id
    creating           \* the create_chat request between validation and insert

apiVars == << response, chatTable, creating >>

VARIABLES
    reply,             \* message.content the title model answers with for this
                       \* chat's first texts, None when the call raises
    generated,         \* what generate_chat_title returned last, or None
    titlesAfter        \* per call of generate_and_update_title: the chat as
                       \* it left it, and whether it ran to its end

genVars == << reply, generated, titlesAfter >>

\* state the single turn does not touch
restVars == << inputVars, raceVars, monitorVars, apiVars, genVars >>

vars ==
    << dbChat, dbChatSettings, dbProject, dbGlobal, dbMessages, enable_auto_title,
       message, session, pending, pendingTitle, pc, chat, temperature, max_tokens,
       ollama_messages, full_response, chunk, fragments, pulled, stream, exc,
       events, disconnected, backendCalls, attempt, title, raceVars,
       monitorVars, apiVars, genVars >>

\* what the session reads: committed rows and its own flushed rows
SessionMessages == dbMessages \o pending

\* the state before the request: a chat that does not exist owns no row
InitDb(chatSettingsRows, projectRows) ==
    \/ /\ dbChat = None
       /\ dbChatSettings = None
       /\ dbProject = None
       /\ dbMessages = <<>>
    \/ /\ dbChat \in { Some([title |-> t, model |-> "m"]) : t \in Titles }
       /\ dbChatSettings \in {None} \cup { Some(r) : r \in chatSettingsRows }
       /\ dbProject \in {None} \cup { Some(r) : r \in projectRows }
       /\ dbMessages \in Histories

InitTurn ==
    /\ session = "none"
    /\ pending = <<>>
    /\ pendingTitle = None
    /\ pc = "start"
    /\ chat = None
    /\ temperature = None
    /\ max_tokens = None
    /\ ollama_messages = <<>>
    /\ full_response = <<>>
    /\ chunk = None
    /\ fragments = <<>>
    /\ pulled = 0
    /\ stream = "unopened"
    /\ exc = NoException
    /\ events = <<>>
    /\ disconnected = FALSE
    /\ backendCalls = <<0, 0>>
    /\ attempt = 0
    /\ title = None

\* the rows the turn is followed through: one chat override, an empty project
\* and a project with instructions, overrides and two files
TurnChatSettingsRows == { [temperature |-> Some(0), max_tokens |-> None] }

TurnProjectRows ==
    { [temperature |-> None, max_tokens |-> None,
       custom_instructions |-> None, files |-> <<>>],
      [temperature |-> Some(12), max_tokens |-> Some(512),
       custom_instructions |-> Some(<<"i">>),
       files |-> << [filename |-> "f1", content |-> Some(<<"x">>)],
                    [filename |-> "f2", content |-> None] >>] }

\* no connection of the shared chat has made a request
IdleTurn == [pc |-> "idle", chat |-> None, title |-> None, attempt |-> 0,
             pending |-> None]

NoTurns ==
    /\ turns = [t \in Connections |-> IdleTurn]
    /\ chatTitle = NewChat
    /\ assistantRows = 0
    /\ titleRuns = 0
    /\ titleWrites = 0

ServerIds == 1..MaxServers

\* no row is held
NoRows == [i \in {} |-> None]

\* ollama_server.py: a row as it is inserted, health fields at their defaults
NewServer(is_active) ==
    [tailscale_url |-> "u", is_active |-> is_active, status |-> "unknown",
     last_checked_at |-> None, last_error |-> None, models_count |-> 0,
     average_response_time_ms |-> None]

\* the monitor has not been started
NoMonitor ==
    /\ servers = [i \in ServerIds |-> NewServer(TRUE)]
    /\ now = 0
    /\ hmPc = "stopped"
    /\ hmSession = NoRows
    /\ hmQueue = <<>>
    /\ hmLoaded = NoRows
    /\ probed = [i \in ServerIds |-> None]
    /\ hmLast = "none"
    /\ running = FALSE
    /\ hmTasks = 0
    /\ hmStarts = 0
    /\ hmStops = 0
    /\ cancelRequested = FALSE
    /\ stopPc = "idle"
    /\ hmLog = "none"

\* no request has been answered
NoResponse ==
    [op |-> "none", id |-> 0, code |-> 0, connected |-> FALSE, url |-> "",
     models_count |-> None, error |-> None, row |-> None, probes |-> 0]

\* no request has been made to the server or chat endpoints
NoApi ==
    /\ response = NoResponse
    /\ chatTable = << >>
    /\ creating = << >>

\* generate_and_update_title is called by the turn only
NoGeneration ==
    /\ reply = None
    /\ generated = None
    /\ titlesAfter = << >>

Init ==
    /\ InitDb(TurnChatSettingsRows, TurnProjectRows)
    /\ dbGlobal \in {None} \cup { Some(r) : r \in GlobalRows }
    /\ enable_auto_title \in BOOLEAN
    /\ message \in UserMessages
    /\ InitTurn
    /\ NoTurns
    /\ NoMonitor
    /\ NoApi
    /\ NoGeneration

\* every combination of chat, project and global rows
InitContext ==
    /\ InitDb(ChatSettingsRows, ProjectRows)
    /\ dbGlobal \in {None} \cup { Some(r) : r \in GlobalRows }
    /\ enable_auto_title = TRUE
    /\ message \in UserMessages
    /\ InitTurn
    /\ NoTurns
    /\ NoMonitor
    /\ NoApi
    /\ NoGeneration

-----------------------------------------------------------------------------
(* Storage session: flush writes inside the session's transaction, commit   *)
(* makes the transaction durable, close without commit discards it          *)

\* the text sent downstream under the explicit-attachment variant
\* (test_file_context.py:93-94) is what gets stored
UserRowWithFiles(text) ==
    [role |-> "user",
     content |->
        (IF IsNone(dbProject) THEN <<>>
         ELSE Join([i \in 1..Len(Get(dbProject).files) |->
                        FileBlock(Get(dbProject).files[i])], <<"\n", "\n">>))
            \o <<"\n", "\n", "[User Message]", "\n">> \o text,
     turn |-> 1]

\* messages.py:387-391
UserRow(text) == [role |-> "user", content |-> text, turn |-> 1]

AssistantRow(text) == [role |-> "assistant", content |-> text, turn |-> 1]

\* full_response = chunk: the accumulator keeps the last fragment only
AccumulateLast(full, c) == c

\* full_response += chunk
Accumulate(full, c) == full \o c

Count(rows, role) == Cardinality({ i \in 1..Len(rows) : rows[i].role = role })

Raise(e) ==
    /\ exc' = e
    /\ pc' = "except"

Emit(ev) == events' = Append(events, ev)

\* chats row after the session's title change, if any, is committed
WithTitle(row, t) ==
    IF IsNone(t) \/ IsNone(row) THEN row
    ELSE Some([Get(row) EXCEPT !.title = Get(t)])

-----------------------------------------------------------------------------
(* event_generator, messages.py:222-457 *)

\* messages.py:223-229
OpenSession ==
    /\ pc = "start"
    /\ \/ /\ session' = "open"
          /\ pc' = "load_chat"
          /\ UNCHANGED exc
       \/ /\ Raise([type |-> "Exception", str |-> "session factory failure"])
          /\ UNCHANGED session
    /\ UNCHANGED << dbVars, restVars, pending, pendingTitle, resolveVars,
                    streamVars, events, disconnected, backendCalls, titleVars >>

\* the "if not chat" check of line 236 is missing
LoadChatUnchecked ==
    /\ pc = "load_chat"
    /\ chat' = dbChat
    /\ pc' = "resolve"
    /\ UNCHANGED << dbVars, restVars, session, pending, pendingTitle, temperature,
                    max_tokens, ollama_messages, streamVars, exc, events,
                    disconnected, backendCalls, titleVars >>

\* messages.py:231-239
LoadChat ==
    /\ pc = "load_chat"
    /\ \/ /\ chat' = dbChat
          /\ IF IsNone(dbChat)
             THEN /\ Emit(ChatNotFoundEvent)
                  /\ pc' = "at_terminal_yield"
             ELSE /\ pc' = "resolve"
                  /\ UNCHANGED events
          /\ UNCHANGED exc
       \/ /\ Raise(StorageError)
          /\ UNCHANGED << chat, events >>
    /\ UNCHANGED << dbVars, restVars, session, pending, pendingTitle, temperature,
                    max_tokens, ollama_messages, streamVars, disconnected,
                    backendCalls, titleVars >>

\* messages.py:241-280
ResolveParameters ==
    /\ pc = "resolve"
    /\ \/ /\ temperature' =
                Some(ResolveTemperature(dbChatSettings, dbProject, dbGlobal))
          /\ max_tokens' = Some(ResolveMaxTokens(dbChatSettings, dbProject, dbGlobal))
          /\ pc' = "assemble"
          /\ UNCHANGED exc
       \/ /\ Raise(StorageError)
          /\ UNCHANGED << temperature, max_tokens >>
    /\ UNCHANGED << dbVars, restVars, session, pending, pendingTitle, chat,
                    ollama_messages, streamVars, events, disconnected,
                    backendCalls, titleVars >>

\* messages.py:282-362
AssembleContext ==
    /\ pc = "assemble"
    /\ \/ /\ ollama_messages' =
                OllamaMessages(
                    SessionMessages,
                    SystemPromptParts(
                        dbProject, ~IsNone(dbProject),
                        IF IsNone(dbProject) THEN <<>> ELSE Get(dbProject).files),
                    message)
          /\ pc' = "save_user"
          /\ UNCHANGED exc
       \/ /\ Raise(StorageError)
          /\ UNCHANGED ollama_messages
    /\ UNCHANGED << dbVars, restVars, session, pending, pendingTitle, chat,
                    temperature, max_tokens, streamVars, events, disconnected,
                    backendCalls, titleVars >>

\* the user row is committed as soon as it is added
SaveUserMessageCommitted ==
    /\ pc = "save_user"
    /\ dbMessages' = Append(dbMessages, UserRow(message))
    /\ pc' = "open_stream"
    /\ UNCHANGED << dbChat, dbChatSettings, dbProject, dbGlobal, restVars, session,
                    pending, pendingTitle, resolveVars, streamVars, exc, events,
                    disconnected, backendCalls, titleVars >>

\* messages.py:386-393
SaveUserMessage ==
    /\ pc = "save_user"
    /\ \/ /\ pending' = Append(pending, UserRow(message))
          /\ pc' = "open_stream"
          /\ UNCHANGED exc
       \/ /\ Raise(StorageError)
          /\ UNCHANGED pending
    /\ UNCHANGED << dbVars, restVars, session, pendingTitle, resolveVars,
                    streamVars, events, disconnected, backendCalls, titleVars >>

\* ollama_service.py:170-184 and 194-200: the client.chat call that opens the stream
StreamOpen ==
    /\ pc = "open_stream"
    /\ backendCalls' = [backendCalls EXCEPT ![1] = @ + 1]
    /\ \/ /\ stream' = "open"
          /\ pc' = "pull"
          /\ UNCHANGED exc
       \/ \E e \in BackendErrors :
            /\ stream' = "failed"
            /\ Raise(ClassifyError(e))
    /\ UNCHANGED << dbVars, restVars, session, pending, pendingTitle, resolveVars,
                    full_response, chunk, fragments, pulled, events, disconnected,
                    titleVars >>

\* ollama_service.py:186-200 under messages.py:404: the next fragment is requested
StreamPull ==
    /\ pc = "pull"
    /\ \/ /\ pulled < MaxChunks
          /\ \E raw \in RawChunks :
                /\ pulled' = pulled + 1
                /\ IF ~IsNone(raw.message) /\ Get(raw.message) # <<>>
                   THEN /\ chunk' = raw.message
                        /\ fragments' = Append(fragments, Get(raw.message))
                        /\ pc' = "relay"
                   ELSE UNCHANGED << chunk, fragments, pc >>
          /\ UNCHANGED << stream, exc >>
       \/ /\ stream' = "exhausted"
          /\ pc' = "save_assistant"
          /\ UNCHANGED << chunk, fragments, pulled, exc >>
       \/ \E e \in BackendErrors :
            /\ stream' = "failed"
            /\ Raise(ClassifyError(e))
            /\ UNCHANGED << chunk, fragments, pulled >>
    /\ UNCHANGED << dbVars, restVars, session, pending, pendingTitle, resolveVars,
                    full_response, events, disconnected, backendCalls, titleVars >>

\* the fragment is accumulated and the next one requested before it is yielded
RelayFragmentDeferred ==
    /\ pc = "relay"
    /\ full_response' = Accumulate(full_response, Get(chunk))
    /\ chunk' = None
    /\ pc' = "pull"
    /\ UNCHANGED << dbVars, restVars, session, pending, pendingTitle, resolveVars,
                    fragments, pulled, stream, exc, events, disconnected,
                    backendCalls, titleVars >>

\* messages.py:410-412
RelayFragment ==
    /\ pc = "relay"
    /\ full_response' = Accumulate(full_response, Get(chunk))
    /\ Emit(ContentEvent(Get(chunk)))
    /\ chunk' = None
    /\ pc' = "at_content_yield"
    /\ UNCHANGED << dbVars, restVars, session, pending, pendingTitle, resolveVars,
                    fragments, pulled, stream, exc, disconnected, backendCalls,
                    titleVars >>

\* the caller asks for the next event: the generator resumes after line 412
ResumeContent ==
    /\ pc = "at_content_yield"
    /\ pc' = "pull"
    /\ UNCHANGED << dbVars, restVars, session, pending, pendingTitle, resolveVars,
                    streamVars, exc, events, disconnected, backendCalls, titleVars >>

\* the generator swallows the close request and goes on with the loop
DisconnectKeepsPulling ==
    /\ pc = "at_content_yield"
    /\ disconnected' = TRUE
    /\ pc' = "pull"
    /\ UNCHANGED << dbVars, restVars, session, pending, pendingTitle, resolveVars,
                    streamVars, exc, events, backendCalls, titleVars >>

\* the caller closes the stream: GeneratorExit at the yield of line 412, or
\* the cancellation of the response task while line 404 awaits the next
\* fragment, passes both except clauses (neither is an Exception) and runs
\* the finally clause
Disconnect ==
    /\ pc \in {"at_content_yield", "pull"}
    /\ disconnected' = TRUE
    /\ stream' = "abandoned"
    /\ pc' = "finally"
    /\ UNCHANGED << dbVars, restVars, session, pending, pendingTitle, resolveVars,
                    full_response, chunk, fragments, pulled, exc, events,
                    backendCalls, titleVars >>

\* the accumulated text is committed when the generator leaves through except
SaveAssistantOnError ==
    /\ pc = "except"
    /\ session = "open"
    /\ dbMessages' = dbMessages \o pending \o << AssistantRow(full_response) >>
    /\ pending' = <<>>
    /\ Emit(IF exc.type = "OllamaConnectionError"
            THEN ConnectionErrorEvent ELSE InternalErrorEvent(exc))
    /\ pc' = "at_terminal_yield"
    /\ UNCHANGED << dbChat, dbChatSettings, dbProject, dbGlobal, restVars, session,
                    pendingTitle, resolveVars, streamVars, exc, disconnected,
                    backendCalls, titleVars >>

\* the assistant row is flushed like the user row, the commit of line 421 is
\* not made
SaveAssistantFlushed ==
    /\ pc = "save_assistant"
    /\ \/ /\ pending' = pending \o << AssistantRow(full_response) >>
          /\ pc' = "count_assistants"
          /\ UNCHANGED << dbMessages, exc >>
       \/ /\ Raise(StorageError)
          /\ UNCHANGED << dbMessages, pending >>
    /\ UNCHANGED << dbChat, dbChatSettings, dbProject, dbGlobal, restVars, session,
                    pendingTitle, resolveVars, streamVars, events, disconnected,
                    backendCalls, titleVars >>

\* messages.py:414-421
SaveAssistant ==
    /\ pc = "save_assistant"
    /\ \/ /\ dbMessages' = dbMessages \o pending \o << AssistantRow(full_response) >>
          /\ pending' = <<>>
          /\ pc' = "count_assistants"
          /\ UNCHANGED exc
       \/ /\ Raise(StorageError)
          /\ UNCHANGED << dbMessages, pending >>
    /\ UNCHANGED << dbChat, dbChatSettings, dbProject, dbGlobal, restVars, session,
                    pendingTitle, resolveVars, streamVars, events, disconnected,
                    backendCalls, titleVars >>

\* done is yielded as soon as the rows are committed, before the title work
CountAssistantsDoneFirst ==
    /\ pc = "count_assistants"
    /\ Emit(DoneEvent)
    /\ pc' = IF Count(SessionMessages, "assistant") = 1
             THEN "title_start" ELSE "at_terminal_yield"
    /\ UNCHANGED << dbVars, restVars, session, pending, pendingTitle, resolveVars,
                    streamVars, exc, disconnected, backendCalls, titleVars >>

\* messages.py:425-433
CountAssistants ==
    /\ pc = "count_assistants"
    /\ \/ /\ pc' = IF Count(SessionMessages, "assistant") = 1
                   THEN "title_start" ELSE "emit_done"
          /\ UNCHANGED exc
       \/ Raise(StorageError)
    /\ UNCHANGED << dbVars, restVars, session, pending, pendingTitle, resolveVars,
                    streamVars, events, disconnected, backendCalls, titleVars >>

-----------------------------------------------------------------------------
(* generate_and_update_title, messages.py:27-114, called at line 435 *)

\* the title check of line 52 is missing: a renamed chat is titled again
TitleStartAnyTitle ==
    /\ pc = "title_start"
    /\ IF /\ enable_auto_title
          /\ ~IsNone(dbChat)
          /\ Count(SessionMessages, "user") > 0
          /\ Count(SessionMessages, "assistant") > 0
       THEN /\ attempt' = 1
            /\ pc' = "title_attempt"
       ELSE /\ pc' = "title_commit"
            /\ UNCHANGED attempt
    /\ UNCHANGED << dbVars, restVars, session, pending, pendingTitle, resolveVars,
                    streamVars, exc, events, disconnected, backendCalls, title >>

\* messages.py:37-84: the guards before the retry loop; a failing query is
\* caught at line 113 and the function returns
TitleStart ==
    /\ pc = "title_start"
    /\ \/ /\ IF /\ enable_auto_title
                /\ ~IsNone(dbChat)
                /\ Get(dbChat).title = NewChat
                /\ Count(SessionMessages, "user") > 0
                /\ Count(SessionMessages, "assistant") > 0
             THEN /\ attempt' = 1
                  /\ pc' = "title_attempt"
             ELSE /\ pc' = "title_commit"
                  /\ UNCHANGED attempt
       \/ /\ enable_auto_title
          /\ pc' = "title_commit"
          /\ UNCHANGED attempt
    /\ UNCHANGED << dbVars, restVars, session, pending, pendingTitle, resolveVars,
                    streamVars, exc, events, disconnected, backendCalls, title >>

\* the failure of the last attempt is raised out of generate_and_update_title
TitleAttemptRaises ==
    /\ pc = "title_attempt"
    /\ backendCalls' = [backendCalls EXCEPT ![2] = @ + 1]
    /\ \/ \E raw \in RawTitles :
            /\ title' = Some(CleanTitle(raw))
            /\ pc' = "title_update"
            /\ UNCHANGED << attempt, exc >>
       \/ \E e \in BackendErrors :
            /\ IF attempt < max_attempts
               THEN /\ attempt' = attempt + 1
                    /\ UNCHANGED << pc, exc >>
               ELSE /\ Raise(ClassifyError(e))
                    /\ UNCHANGED attempt
            /\ UNCHANGED title
    /\ UNCHANGED << dbVars, restVars, session, pending, pendingTitle, resolveVars,
                    streamVars, events, disconnected >>

\* range(1, max_attempts + 2): a failed second attempt is retried once more
TitleAttemptThrice ==
    /\ pc = "title_attempt"
    /\ backendCalls' = [backendCalls EXCEPT ![2] = @ + 1]
    /\ \/ \E raw \in RawTitles :
            /\ title' = Some(CleanTitle(raw))
            /\ pc' = "title_update"
            /\ UNCHANGED attempt
       \/ \E e \in BackendErrors :
            /\ IF attempt <= max_attempts
               THEN /\ attempt' = attempt + 1
                    /\ UNCHANGED pc
               ELSE /\ pc' = "title_commit"
                    /\ UNCHANGED attempt
            /\ UNCHANGED title
    /\ UNCHANGED << dbVars, restVars, session, pending, pendingTitle, resolveVars,
                    streamVars, exc, events, disconnected >>

\* messages.py:90-103 around ollama_service.py:245-304
TitleAttempt ==
    /\ pc = "title_attempt"
    /\ backendCalls' = [backendCalls EXCEPT ![2] = @ + 1]
    /\ \/ \E raw \in RawTitles :
            /\ title' = Some(CleanTitle(raw))
            /\ pc' = "title_update"
            /\ UNCHANGED attempt
       \/ \E e \in BackendErrors :
            /\ IF attempt < max_attempts
               THEN /\ attempt' = attempt + 1
                    /\ UNCHANGED pc
               ELSE /\ pc' = "title_commit"
                    /\ UNCHANGED attempt
            /\ UNCHANGED title
    /\ UNCHANGED << dbVars, restVars, session, pending, pendingTitle, resolveVars,
                    streamVars, exc, events, disconnected >>

\* the test of line 106 is missing: whatever the call returned is assigned
TitleUpdateAlways ==
    /\ pc = "title_update"
    /\ pendingTitle' = title
    /\ pc' = "title_commit"
    /\ UNCHANGED << dbVars, restVars, session, pending, resolveVars, streamVars,
                    exc, events, disconnected, backendCalls, titleVars >>

\* messages.py:105-111
TitleUpdate ==
    /\ pc = "title_update"
    /\ pendingTitle' =
          IF Get(title) # <<>> /\ Get(title) # NewChat THEN title ELSE pendingTitle
    /\ pc' = "title_commit"
    /\ UNCHANGED << dbVars, restVars, session, pending, resolveVars, streamVars,
                    exc, events, disconnected, backendCalls, titleVars >>

\* messages.py:436
TitleCommit ==
    /\ pc = "title_commit"
    /\ \/ /\ dbChat' = WithTitle(dbChat, pendingTitle)
          /\ pendingTitle' = None
          /\ pc' = "emit_done"
          /\ UNCHANGED exc
       \/ /\ Raise(StorageError)
          /\ UNCHANGED << dbChat, pendingTitle >>
    /\ UNCHANGED << dbChatSettings, dbProject, dbGlobal, dbMessages, restVars,
                    session, pending, resolveVars, streamVars, events, disconnected,
                    backendCalls, titleVars >>

-----------------------------------------------------------------------------
(* The ways out of the generator *)

\* messages.py:438-440
EmitDone ==
    /\ pc = "emit_done"
    /\ Emit(DoneEvent)
    /\ pc' = "at_terminal_yield"
    /\ UNCHANGED << dbVars, restVars, session, pending, pendingTitle, resolveVars,
                    streamVars, exc, disconnected, backendCalls, titleVars >>

\* messages.py:442-454: the event of the except clause that catches e
ExceptionEvent(e) ==
    IF e.type = "OllamaConnectionError"
    THEN ConnectionErrorEvent
    ELSE InternalErrorEvent(e)

\* only OllamaConnectionError is handled: anything else leaves the generator
HandleConnectionErrorOnly ==
    /\ pc = "except"
    /\ IF exc.type = "OllamaConnectionError"
       THEN /\ Emit(ConnectionErrorEvent)
            /\ pc' = "at_terminal_yield"
       ELSE /\ pc' = "finally"
            /\ UNCHANGED events
    /\ UNCHANGED << dbVars, restVars, session, pending, pendingTitle, resolveVars,
                    streamVars, exc, disconnected, backendCalls, titleVars >>

\* messages.py:442-454
HandleException ==
    /\ pc = "except"
    /\ Emit(ExceptionEvent(exc))
    /\ pc' = "at_terminal_yield"
    /\ UNCHANGED << dbVars, restVars, session, pending, pendingTitle, resolveVars,
                    streamVars, exc, disconnected, backendCalls, titleVars >>

\* the caller asks for the next event after the terminal one: the generator
\* leaves the try statement (line 239's return, the end of the try block or
\* of an except clause)
ResumeTerminal ==
    /\ pc = "at_terminal_yield"
    /\ pc' = "finally"
    /\ UNCHANGED << dbVars, restVars, session, pending, pendingTitle, resolveVars,
                    streamVars, exc, events, disconnected, backendCalls, titleVars >>

\* messages.py:455-457: closing the session discards what it has not committed
Finally ==
    /\ pc = "finally"
    /\ IF session = "open"
       THEN /\ session' = "closed"
            /\ pending' = <<>>
            /\ pendingTitle' = None
       ELSE UNCHANGED << session, pending, pendingTitle >>
    /\ pc' = "closed"
    /\ UNCHANGED << dbVars, restVars, resolveVars, streamVars, exc, events,
                    disconnected, backendCalls, titleVars >>

Next ==
    \/ OpenSession
    \/ LoadChat
    \/ ResolveParameters
    \/ AssembleContext
    \/ SaveUserMessage
    \/ StreamOpen
    \/ StreamPull
    \/ RelayFragment
    \/ ResumeContent
    \/ Disconnect
    \/ SaveAssistant
    \/ CountAssistants
    \/ TitleStart
    \/ TitleAttempt
    \/ TitleUpdate
    \/ TitleCommit
    \/ EmitDone
    \/ HandleException
    \/ ResumeTerminal
    \/ Finally

Spec == Init /\ [][Next]_vars

\* the turn up to the assembled context, over every combination of rows
NextContext ==
    \/ OpenSession
    \/ LoadChat
    \/ ResolveParameters
    \/ AssembleContext
    \/ HandleException
    \/ ResumeTerminal
    \/ Finally

SpecContext == InitContext /\ [][NextContext]_vars

-----------------------------------------------------------------------------
(* Turns of several connections on one chat: each runs event_generator with  *)
(* its own session; committed rows are what the connections share            *)

\* generate_chat_title's results
GeneratedTitles == { CleanTitle(raw) : raw \in RawTitles }

\* the test of line 433 passes whenever the chat has an assistant row
FirstAssistantOrLater(assistant_count) == assistant_count >= 1

\* messages.py:433
FirstAssistant(assistant_count) == assistant_count = 1

SetTurn(t, r) == turns' = [turns EXCEPT ![t] = r]

\* the single turn's own state stays as it was before the request
TurnUntouched ==
    UNCHANGED << dbVars, inputVars, session, pending, pendingTitle, pc,
                 resolveVars, streamVars, exc, events, disconnected,
                 backendCalls, titleVars, monitorVars, apiVars, genVars >>

\* messages.py:222-239 and 386-393: the session loads the chat; the user row
\* it flushes is not visible to the other connections
BeginTurn(t) ==
    /\ turns[t].pc = "idle"
    /\ SetTurn(t, [turns[t] EXCEPT !.pc = "streaming", !.chat = Some(chatTitle)])
    /\ UNCHANGED << chatTitle, assistantRows, titleRuns, titleWrites >>
    /\ TurnUntouched

\* messages.py:442-457, or the caller closing the stream: nothing is committed
AbandonTurn(t) ==
    /\ turns[t].pc = "streaming"
    /\ SetTurn(t, [turns[t] EXCEPT !.pc = "closed"])
    /\ UNCHANGED << chatTitle, assistantRows, titleRuns, titleWrites >>
    /\ TurnUntouched

\* messages.py:414-421
CommitAssistant(t) ==
    /\ turns[t].pc = "streaming"
    /\ assistantRows' = assistantRows + 1
    /\ SetTurn(t, [turns[t] EXCEPT !.pc = "count"])
    /\ UNCHANGED << chatTitle, titleRuns, titleWrites >>
    /\ TurnUntouched

\* messages.py:425-433: the query runs in a new transaction and counts the
\* rows every connection has committed
CountQuery(t) ==
    /\ turns[t].pc = "count"
    /\ SetTurn(t, [turns[t] EXCEPT
                     !.pc = IF FirstAssistant(assistantRows)
                            THEN "title_start" ELSE "done"])
    /\ UNCHANGED << chatTitle, assistantRows, titleRuns, titleWrites >>
    /\ TurnUntouched

\* messages.py:37-88: the Chat the query of line 41 returns is the object the
\* session loaded at line 231; its title is the committed one when the commit
\* of line 421 expired the object and the loaded one when it did not (the
\* session factory's expire_on_commit setting)
StartTitle(t) ==
    /\ turns[t].pc = "title_start"
    /\ \E seen \in {chatTitle, Get(turns[t].chat)} :
          IF enable_auto_title /\ seen = NewChat
          THEN /\ SetTurn(t, [turns[t] EXCEPT !.pc = "title_attempt", !.attempt = 1])
               /\ titleRuns' = titleRuns + 1
          ELSE /\ SetTurn(t, [turns[t] EXCEPT !.pc = "title_commit"])
               /\ UNCHANGED titleRuns
    /\ UNCHANGED << chatTitle, assistantRows, titleWrites >>
    /\ TurnUntouched

\* messages.py:90-103
AttemptTitle(t) ==
    /\ turns[t].pc = "title_attempt"
    /\ \/ \E g \in GeneratedTitles :
            SetTurn(t, [turns[t] EXCEPT !.pc = "title_update", !.title = Some(g)])
       \/ IF turns[t].attempt < max_attempts
          THEN SetTurn(t, [turns[t] EXCEPT !.attempt = @ + 1])
          ELSE SetTurn(t, [turns[t] EXCEPT !.pc = "title_commit"])
    /\ UNCHANGED << chatTitle, assistantRows, titleRuns, titleWrites >>
    /\ TurnUntouched

\* messages.py:105-111
UpdateTitle(t) ==
    /\ turns[t].pc = "title_update"
    /\ SetTurn(t, [turns[t] EXCEPT
                     !.pc = "title_commit",
                     !.pending = IF Get(turns[t].title) # <<>>
                                    /\ Get(turns[t].title) # NewChat
                                 THEN turns[t].title ELSE @])
    /\ UNCHANGED << chatTitle, assistantRows, titleRuns, titleWrites >>
    /\ TurnUntouched

\* messages.py:436
CommitTitle(t) ==
    /\ turns[t].pc = "title_commit"
    /\ IF IsNone(turns[t].pending)
       THEN UNCHANGED << chatTitle, titleWrites >>
       ELSE /\ chatTitle' = Get(turns[t].pending)
            /\ titleWrites' = titleWrites + 1
    /\ SetTurn(t, [turns[t] EXCEPT !.pc = "done", !.pending = None])
    /\ UNCHANGED << assistantRows, titleRuns >>
    /\ TurnUntouched

\* messages.py:438-440 and 455-457
CompleteTurn(t) ==
    /\ turns[t].pc = "done"
    /\ SetTurn(t, [turns[t] EXCEPT !.pc = "closed"])
    /\ UNCHANGED << chatTitle, assistantRows, titleRuns, titleWrites >>
    /\ TurnUntouched

\* chats.py:216-245: the user renames the chat
RenameChat ==
    /\ \E t \in Titles \ {chatTitle} : chatTitle' = t
    /\ UNCHANGED << turns, assistantRows, titleRuns, titleWrites >>
    /\ TurnUntouched

InitTurns ==
    /\ dbChat = Some([title |-> NewChat, model |-> "m"])
    /\ dbChatSettings = None
    /\ dbProject = None
    /\ dbGlobal = None
    /\ dbMessages = <<>>
    /\ enable_auto_title \in BOOLEAN
    /\ message = <<"q">>
    /\ InitTurn
    /\ turns = [t \in Connections |-> IdleTurn]
    /\ chatTitle \in Titles
    /\ assistantRows \in {0, 1}
    /\ titleRuns = 0
    /\ titleWrites = 0
    /\ NoMonitor
    /\ NoApi
    /\ NoGeneration

NextTurns ==
    \/ \E t \in Connections : BeginTurn(t)
    \/ \E t \in Connections : AbandonTurn(t)
    \/ \E t \in Connections : CommitAssistant(t)
    \/ \E t \in Connections : CountQuery(t)
    \/ \E t \in Connections : StartTitle(t)
    \/ \E t \in Connections : AttemptTitle(t)
    \/ \E t \in Connections : UpdateTitle(t)
    \/ \E t \in Connections : CommitTitle(t)
    \/ \E t \in Connections : CompleteTurn(t)
    \/ RenameChat

SpecTurns == InitTurns /\ [][NextTurns]_vars

-----------------------------------------------------------------------------
(* OllamaService.check_health and get_models as health_monitor.py calls them *)

\* outcome of a call: an exception raised, or a value returned
Raised(type, str) == [raised |-> TRUE, type |-> type, str |-> str, value |-> None]

Returned(v) == [raised |-> FALSE, type |-> "", str |-> "", value |-> Some(v)]

\* what the backend at a server's URL does when probed: answers GET /api/tags
\* (and lists n models, or fails to list: None), times out, answers with an
\* HTTP error, or has a URL the HTTP client rejects
Backends ==
    { [health |-> "up", models |-> m] :
        m \in {None} \cup { Some(n) : n \in 0..MaxModels } }
        \cup { [health |-> h, models |-> None] :
                 h \in {"timeout", "http_error", "invalid_url"} }

\* parameters after self: ollama_service.py:28 and 54
CheckHealthParams == << >>

GetModelsParams == << >>

\* binding of a call's positional arguments to the function's parameters;
\* the body runs only when they match in number
Call(name, params, args, body) ==
    IF Len(args) # Len(params)
    THEN Raised("TypeError", name \o "() takes 1 positional argument but 2 were given")
    ELSE body

\* ollama_service.py:38-52
check_health(backend) ==
    CASE backend.health = "up" -> Returned([kind |-> "bool", v |-> TRUE])
      [] backend.health = "timeout" ->
            Raised("OllamaConnectionError", "Unable to connect to Ollama: timed out")
      [] backend.health = "http_error" ->
            Raised("OllamaConnectionError", "Unable to connect to Ollama: HTTP 500")
      [] OTHER -> Raised("InvalidURL", "invalid URL")

\* ollama_service.py:64-71
get_models(backend) ==
    IF IsNone(backend.models)
    THEN Raised("OllamaConnectionError", "Unable to connect to Ollama: list failed")
    ELSE Returned([kind |-> "list", v |-> Get(backend.models)])

\* health_monitor.py:104: the target list "is_healthy, error_msg" takes a
\* sequence of two values
Unpack(result) ==
    IF result.raised THEN result
    ELSE IF Get(result.value).kind = "tuple" THEN result
    ELSE Raised("TypeError", "cannot unpack non-iterable bool object")

-----------------------------------------------------------------------------
(* HealthMonitor, health_monitor.py *)

\* the except clause of _check_server records the error text and leaves the
\* status as it was
CheckedRowKeepsStatus(server, backend, t) ==
    LET call == Unpack(Call("check_health", CheckHealthParams,
                            << server.tailscale_url >>, check_health(backend)))
    IN  IF call.raised
        THEN [server EXCEPT !.last_error = Some(call.str),
                            !.last_checked_at = Some(t)]
        ELSE IF Get(call.value).v[1]
        THEN LET models == Call("get_models", GetModelsParams,
                                << server.tailscale_url >>, get_models(backend))
                 models_count == IF models.raised THEN 0 ELSE Get(models.value).v
             IN  [server EXCEPT !.status = "online",
                                !.last_error = None,
                                !.models_count = models_count,
                                !.last_checked_at = Some(t),
                                !.average_response_time_ms = Some("ms")]
        ELSE [server EXCEPT !.status = "offline",
                            !.last_error = Get(call.value).v[2],
                            !.last_checked_at = Some(t)]

\* health_monitor.py:100-143: the row after _check_server
CheckedRow(server, backend, t) ==
    LET call == Unpack(Call("check_health", CheckHealthParams,
                            << server.tailscale_url >>, check_health(backend)))
    IN  IF call.raised
        THEN [server EXCEPT !.status = "error",
                            !.last_error = Some(call.str),
                            !.last_checked_at = Some(t)]
        ELSE IF Get(call.value).v[1]
        THEN LET models == Call("get_models", GetModelsParams,
                                << server.tailscale_url >>, get_models(backend))
                 models_count == IF models.raised THEN 0 ELSE Get(models.value).v
             IN  [server EXCEPT !.status = "online",
                                !.last_error = None,
                                !.models_count = models_count,
                                !.last_checked_at = Some(t),
                                !.average_response_time_ms = Some("ms")]
        ELSE [server EXCEPT !.status = "offline",
                            !.last_error = Get(call.value).v[2],
                            !.last_checked_at = Some(t)]

\* orders in which a query without ORDER BY may return the rows of ids
Orderings(ids) ==
    { q \in [1..Cardinality(ids) -> ids] :
        \A i, j \in 1..Cardinality(ids) : q[i] = q[j] => i = j }

\* the state outside the monitor stays as it is
MonitorOnly ==
    UNCHANGED << dbVars, inputVars, session, pending, pendingTitle, pc,
                 resolveVars, streamVars, exc, events, disconnected,
                 backendCalls, titleVars, raceVars, apiVars, genVars >>

\* a step of the loop's task leaves the monitor's flag and tasks as they are
LoopOnly == MonitorOnly /\ UNCHANGED taskVars

\* health_monitor.py:67-81: the pass opens its session and selects the active
\* servers; with none it returns
LoadServers ==
    /\ hmPc = "load"
    /\ ~cancelRequested
    /\ probed' = [i \in ServerIds |-> None]
    /\ \/ LET active == { i \in ServerIds : servers[i].is_active }
          IN  /\ hmLoaded' = [i \in active |-> servers[i]]
              /\ hmSession' = [i \in active |-> servers[i]]
              /\ \E q \in Orderings(active) : hmQueue' = q
              /\ IF active = {}
                 THEN /\ hmPc' = "sleep"
                      /\ hmLast' = "empty"
                 ELSE /\ hmPc' = "check"
                      /\ UNCHANGED hmLast
       \/ /\ hmPc' = "rollback"
          /\ hmLoaded' = NoRows
          /\ UNCHANGED << hmSession, hmQueue, hmLast >>
    /\ UNCHANGED << servers, now >>
    /\ LoopOnly

\* _check_server has no except clause: what it raises ends the pass
CheckServerUncaught ==
    /\ hmPc = "check"
    /\ hmQueue # <<>>
    /\ \E backend \in Backends :
        LET id == Head(hmQueue)
            call == Unpack(Call("check_health", CheckHealthParams,
                                << hmSession[id].tailscale_url >>,
                                check_health(backend)))
        IN  /\ probed' = [probed EXCEPT ![id] = Some(backend)]
            /\ IF call.raised
               THEN /\ hmPc' = "rollback"
                    /\ UNCHANGED << hmSession, hmQueue >>
               ELSE /\ hmSession' =
                        [hmSession EXCEPT ![id] = CheckedRow(@, backend, now)]
                    /\ hmQueue' = Tail(hmQueue)
                    /\ hmPc' = IF Tail(hmQueue) = <<>> THEN "commit" ELSE "check"
    /\ UNCHANGED << servers, now, hmLoaded, hmLast >>
    /\ LoopOnly

\* health_monitor.py:80-81 and 92-143: the next server of the loop is checked
CheckServer ==
    /\ hmPc = "check"
    /\ hmQueue # <<>>
    /\ \E backend \in Backends :
        LET id == Head(hmQueue)
        IN  /\ probed' = [probed EXCEPT ![id] = Some(backend)]
            /\ hmSession' = [hmSession EXCEPT ![id] = CheckedRow(@, backend, now)]
    /\ hmQueue' = Tail(hmQueue)
    /\ hmPc' = IF Tail(hmQueue) = <<>> THEN "commit" ELSE "check"
    /\ UNCHANGED << servers, now, hmLoaded, hmLast >>
    /\ LoopOnly

\* columns of ollama_servers the checks assign
HealthFields ==
    {"status", "last_checked_at", "last_error", "models_count",
     "average_response_time_ms"}

AllFields == DOMAIN NewServer(TRUE)

\* the flush of a commit: for each row the session holds, an UPDATE of the
\* columns whose value it changed since it loaded the row
Committed(stored, held, loaded) ==
    [i \in DOMAIN stored |->
        IF i \in DOMAIN held
        THEN [f \in AllFields |->
                IF held[i][f] # loaded[i][f] THEN held[i][f] ELSE stored[i][f]]
        ELSE stored[i]]

\* the commit stores the rows of the first server only
CommitPassPartial ==
    /\ hmPc = "commit"
    /\ ~cancelRequested
    /\ \/ /\ LET first == CHOOSE m \in DOMAIN hmSession :
                                \A k \in DOMAIN hmSession : m <= k
             IN  servers' = Committed(servers,
                                      [i \in {first} |-> hmSession[i]],
                                      hmLoaded)
          /\ hmSession' = NoRows
          /\ hmPc' = "sleep"
          /\ hmLast' = "committed"
       \/ /\ hmPc' = "rollback"
          /\ UNCHANGED << servers, hmSession, hmLast >>
    /\ UNCHANGED << now, hmQueue, hmLoaded, probed >>
    /\ LoopOnly

\* health_monitor.py:83-84
CommitPass ==
    /\ hmPc = "commit"
    /\ ~cancelRequested
    /\ \/ /\ servers' = Committed(servers, hmSession, hmLoaded)
          /\ hmSession' = NoRows
          /\ hmPc' = "sleep"
          /\ hmLast' = "committed"
       \/ /\ hmPc' = "rollback"
          /\ UNCHANGED << servers, hmSession, hmLast >>
    /\ UNCHANGED << now, hmQueue, hmLoaded, probed >>
    /\ LoopOnly

\* no except clause around _check_all_servers: a rollback that raises ends
\* the task
RollbackPassUncaught ==
    /\ hmPc = "rollback"
    /\ ~cancelRequested
    /\ hmSession' = NoRows
    /\ hmQueue' = <<>>
    /\ \/ /\ hmPc' = "sleep"
          /\ hmLast' = "rolled_back"
          /\ UNCHANGED hmTasks
       \/ /\ hmPc' = "crashed"
          /\ hmLast' = "raised"
          /\ hmTasks' = hmTasks - 1
    /\ UNCHANGED << servers, now, hmLoaded, probed, running, hmStarts, hmStops,
                    cancelRequested, stopPc, hmLog >>
    /\ MonitorOnly

\* health_monitor.py:86-90 and 57-60: the pass is rolled back; a rollback
\* that raises leaves _check_all_servers and is caught and logged by the loop
RollbackPass ==
    /\ hmPc = "rollback"
    /\ ~cancelRequested
    /\ hmSession' = NoRows
    /\ hmQueue' = <<>>
    /\ hmPc' = "sleep"
    /\ \E outcome \in {"rolled_back", "raised"} : hmLast' = outcome
    /\ UNCHANGED << servers, now, hmLoaded, probed >>
    /\ LoopOnly

\* health_monitor.py:54-63: the interval passes and the loop starts a pass
Sleep ==
    /\ hmPc = "sleep"
    /\ ~cancelRequested
    /\ running
    /\ now' = IF now < MaxPasses THEN now + 1 ELSE now
    /\ hmPc' = "load"
    /\ UNCHANGED << servers, hmSession, hmQueue, hmLoaded, probed, hmLast >>
    /\ LoopOnly

\* rows the table holds before a pass: as inserted, active or not, or with
\* the health fields an earlier pass stored
StoredServers ==
    { NewServer(TRUE), NewServer(FALSE),
      [NewServer(TRUE) EXCEPT !.status = "online", !.models_count = 1,
                              !.last_checked_at = Some(0),
                              !.average_response_time_ms = Some("ms")] }

\* the loop has been started and is about to run its first pass
InitMonitor ==
    /\ dbChat = None
    /\ dbChatSettings = None
    /\ dbProject = None
    /\ dbGlobal = None
    /\ dbMessages = <<>>
    /\ enable_auto_title = TRUE
    /\ message = <<"q">>
    /\ InitTurn
    /\ NoTurns
    /\ NoApi
    /\ NoGeneration
    /\ servers \in [ServerIds -> StoredServers]
    /\ now = 1
    /\ hmPc = "load"
    /\ hmSession = NoRows
    /\ hmQueue = <<>>
    /\ hmLoaded = NoRows
    /\ probed = [i \in ServerIds |-> None]
    /\ hmLast = "none"
    /\ running = TRUE
    /\ hmTasks = 1
    /\ hmStarts = 1
    /\ hmStops = 0
    /\ cancelRequested = FALSE
    /\ stopPc = "idle"
    /\ hmLog = "started"

NextMonitor ==
    \/ LoadServers
    \/ CheckServer
    \/ CommitPass
    \/ RollbackPass
    \/ Sleep

SpecMonitor == InitMonitor /\ [][NextMonitor]_vars

-----------------------------------------------------------------------------
(* HealthMonitor.start and stop, health_monitor.py:33-52 *)

\* awaits of _monitor_loop and _check_all_servers: the select, the commit,
\* the rollback and the sleep; a task that has not run yet is at the first
LoopAwaits == {"load", "commit", "rollback", "sleep"}

\* start() and stop() run on the event loop while the loop's task is
\* suspended at an await, has finished or was never created
TaskSuspended == hmPc \in LoopAwaits \cup {"stopped", "cancelled"}

\* start() without the test of _running
StartAlways ==
    /\ stopPc = "idle"
    /\ TaskSuspended
    /\ hmStarts < MaxStarts
    /\ running' = TRUE
    /\ hmTasks' = hmTasks + 1
    /\ hmStarts' = hmStarts + 1
    /\ cancelRequested' = FALSE
    /\ hmLog' = "started"
    /\ hmPc' = "load"
    /\ UNCHANGED << servers, now, hmSession, hmQueue, hmLoaded, probed,
                    hmLast, hmStops, stopPc >>
    /\ MonitorOnly

\* health_monitor.py:33-41
Start ==
    /\ stopPc = "idle"
    /\ TaskSuspended
    /\ IF running
       THEN /\ hmLog' = "already running"
            /\ UNCHANGED << running, hmTasks, hmStarts, cancelRequested, hmPc >>
       ELSE /\ hmStarts < MaxStarts
            /\ running' = TRUE
            /\ hmTasks' = hmTasks + 1
            /\ hmStarts' = hmStarts + 1
            /\ cancelRequested' = FALSE
            /\ hmLog' = "started"
            /\ hmPc' = "load"
    /\ UNCHANGED << servers, now, hmSession, hmQueue, hmLoaded, probed,
                    hmLast, hmStops, stopPc >>
    /\ MonitorOnly

\* health_monitor.py:43-49: stop() clears the flag and, when a task was
\* created, cancels it and awaits it; cancel() on a finished task does nothing
StopRequest ==
    /\ stopPc = "idle"
    /\ TaskSuspended
    /\ hmStops < MaxStops
    /\ hmStops' = hmStops + 1
    /\ running' = FALSE
    /\ IF hmPc = "stopped"
       THEN /\ hmLog' = "stopped"
            /\ UNCHANGED << cancelRequested, stopPc >>
       ELSE /\ cancelRequested' = (hmPc # "cancelled")
            /\ stopPc' = "awaiting"
            /\ UNCHANGED hmLog
    /\ UNCHANGED << servers, now, hmPc, hmSession, hmQueue, hmLoaded, probed,
                    hmLast, hmTasks, hmStarts >>
    /\ MonitorOnly

\* the session is flushed and committed when the cancelled task closes it
CancelledStores ==
    /\ cancelRequested
    /\ hmPc \in LoopAwaits
    /\ hmPc' = "cancelled"
    /\ hmTasks' = hmTasks - 1
    /\ cancelRequested' = FALSE
    /\ servers' = Committed(servers, hmSession, hmLoaded)
    /\ hmLast' = IF hmPc = "sleep" THEN hmLast ELSE "cancelled"
    /\ hmSession' = NoRows
    /\ hmQueue' = <<>>
    /\ UNCHANGED << now, hmLoaded, probed, running, hmStarts, hmStops, stopPc,
                    hmLog >>
    /\ MonitorOnly

\* CancelledError is raised in the task at the await it is suspended on; it
\* is no Exception, so neither except clause (59, 86) catches it: the
\* session is closed with its changes and the task ends. A commit that was
\* under way has taken effect or has not
Cancelled ==
    /\ cancelRequested
    /\ hmPc \in LoopAwaits
    /\ hmPc' = "cancelled"
    /\ hmTasks' = hmTasks - 1
    /\ cancelRequested' = FALSE
    /\ IF hmPc = "commit"
       THEN \E done \in BOOLEAN :
                /\ servers' = IF done THEN Committed(servers, hmSession, hmLoaded)
                              ELSE servers
                /\ hmLast' = IF done THEN "committed" ELSE "cancelled"
       ELSE /\ UNCHANGED servers
            /\ hmLast' = IF hmPc = "sleep" THEN hmLast ELSE "cancelled"
    /\ hmSession' = NoRows
    /\ hmQueue' = <<>>
    /\ UNCHANGED << now, hmLoaded, probed, running, hmStarts, hmStops, stopPc,
                    hmLog >>
    /\ MonitorOnly

\* stop() returns although the task has not finished
StopReturnEarly ==
    /\ stopPc = "awaiting"
    /\ stopPc' = "idle"
    /\ hmLog' = "stopped"
    /\ UNCHANGED << servers, now, hmPc, hmSession, hmQueue, hmLoaded, probed,
                    hmLast, running, hmTasks, hmStarts, hmStops,
                    cancelRequested >>
    /\ MonitorOnly

\* health_monitor.py:49-52: "await self._task" returns when the task has
\* finished; its CancelledError is passed over
StopReturn ==
    /\ stopPc = "awaiting"
    /\ hmPc = "cancelled"
    /\ stopPc' = "idle"
    /\ hmLog' = "stopped"
    /\ UNCHANGED << servers, now, hmPc, hmSession, hmQueue, hmLoaded, probed,
                    hmLast, running, hmTasks, hmStarts, hmStops,
                    cancelRequested >>
    /\ MonitorOnly

\* main.py:40-83: the monitor as constructed, before the lifespan starts
\* it; the table holds one active server and inactive ones
InitLifecycle ==
    /\ dbChat = None
    /\ dbChatSettings = None
    /\ dbProject = None
    /\ dbGlobal = None
    /\ dbMessages = <<>>
    /\ enable_auto_title = TRUE
    /\ message = <<"q">>
    /\ InitTurn
    /\ NoTurns
    /\ NoApi
    /\ NoGeneration
    /\ servers = [i \in ServerIds |-> NewServer(i = 1)]
    /\ now = 0
    /\ hmPc = "stopped"
    /\ hmSession = NoRows
    /\ hmQueue = <<>>
    /\ hmLoaded = NoRows
    /\ probed = [i \in ServerIds |-> None]
    /\ hmLast = "none"
    /\ running = FALSE
    /\ hmTasks = 0
    /\ hmStarts = 0
    /\ hmStops = 0
    /\ cancelRequested = FALSE
    /\ stopPc = "idle"
    /\ hmLog = "none"

NextLifecycle ==
    \/ Start
    \/ StopRequest
    \/ Cancelled
    \/ StopReturn
    \/ LoadServers
    \/ CheckServer
    \/ CommitPass
    \/ RollbackPass
    \/ Sleep

SpecLifecycle == InitLifecycle /\ [][NextLifecycle]_vars

\* the event loop runs every task that is ready, and the timer of
\* asyncio.sleep and the awaited storage calls complete
LoopFairness ==
    /\ WF_vars(LoadServers)
    /\ WF_vars(CheckServer)
    /\ WF_vars(CommitPass)
    /\ WF_vars(RollbackPass)
    /\ WF_vars(Sleep)
    /\ WF_vars(Cancelled)
    /\ WF_vars(StopReturn)

SpecLifecycleFair == SpecLifecycle /\ LoopFairness

-----------------------------------------------------------------------------
(* Server endpoints, ollama_servers.py, and the status endpoint, models.py *)

\* a response with a status code and no body
Answer(op, id, code) == [NoResponse EXCEPT !.op = op, !.id = id, !.code = code]

\* calls of the service that got as far as its body, where the HTTP request
\* to the backend is made
Reached(params, args) == IF Len(args) = Len(params) THEN 1 ELSE 0

\* ids a request may name: the rows' ids and one that no row has
RequestIds == ServerIds \cup {0}

\* request bodies of create_server and update_server: a URL or none, the
\* active flag or none; names and descriptions are not part of the rows here
ServerData ==
    [tailscale_url : {None, Some("u")}, is_active : {None, Some(TRUE), Some(FALSE)}]

\* a request handler runs on the event loop while the monitor's task is
\* suspended; it leaves the monitor's task and session as they are
MonitorAside ==
    /\ hmPc # "check"
    /\ UNCHANGED << dbVars, inputVars, session, pending, pendingTitle, pc,
                    resolveVars, streamVars, exc, events, disconnected,
                    backendCalls, titleVars, raceVars, now, hmPc, hmSession,
                    hmQueue, hmLoaded, probed, hmLast, taskVars, genVars >>

\* a request to the server endpoints leaves the chats as they are
RequestOnly == MonitorAside /\ UNCHANGED << chatTable, creating >>

\* the commit of a request that holds one row
CommittedRow(id, held) ==
    Committed(servers, [i \in {id} |-> held], [i \in {id} |-> servers[id]])

\* models.py:97-140
StatusResponse(server, health, models) ==
    LET caught(call) ==
            [NoResponse EXCEPT
                !.error = Some(IF call.type = "OllamaConnectionError"
                               THEN call.str ELSE "Unknown error")]
    IN  IF health.raised THEN caught(health)
        ELSE IF Get(health.value).v[1]
        THEN IF models.raised THEN caught(models)
             ELSE [NoResponse EXCEPT
                     !.connected = TRUE,
                     !.url = server.tailscale_url,
                     !.models_count = Some(Get(models.value).v)]
        ELSE [NoResponse EXCEPT
                !.url = server.tailscale_url,
                !.error = IF IsNone(Get(health.value).v[2])
                          THEN Some("Unknown error")
                          ELSE Get(health.value).v[2]]

\* models.py:89-140: the first active online server the query returns is
\* asked for its health and its models
StatusRequest ==
    /\ LET online == { i \in DOMAIN servers :
                         servers[i].is_active /\ servers[i].status = "online" }
       IN  IF online = {}
           THEN response' =
                    [Answer("status", 0, 200) EXCEPT
                        !.url = "No servers configured",
                        !.error = Some("No online Ollama servers available")]
           ELSE \E i \in online, backend \in Backends :
                    LET server == servers[i]
                        args == << server.tailscale_url >>
                        health == Unpack(Call("check_health", CheckHealthParams,
                                              args, check_health(backend)))
                        models == Call("get_models", GetModelsParams, args,
                                       get_models(backend))
                        healthy == ~health.raised /\ Get(health.value).v[1]
                    IN  response' =
                            [StatusResponse(server, health, models) EXCEPT
                                !.op = "status", !.id = i, !.code = 200,
                                !.probes = Reached(CheckHealthParams, args)
                                    + IF healthy
                                      THEN Reached(GetModelsParams, args)
                                      ELSE 0]
    /\ UNCHANGED servers
    /\ RequestOnly

\* ollama_servers.py:53-80
GetServer(id) ==
    /\ response' = IF id \in DOMAIN servers
                   THEN [Answer("get", id, 200) EXCEPT !.row = Some(servers[id])]
                   ELSE Answer("get", id, 404)
    /\ UNCHANGED servers
    /\ RequestOnly

\* an id no row has
NewId(ids) == CHOOSE n \in 1..(Cardinality(ids) + 1) : n \notin ids

\* ollama_servers.py:83-145: the row is added and flushed, the connection
\* is tested, the row is committed; an exception of the test leaves the
\* handler and nothing is committed
CreateServer(data) ==
    /\ ~IsNone(data.tailscale_url)
    /\ \E backend \in Backends :
        LET new_server ==
                [NewServer(IF IsNone(data.is_active) THEN TRUE
                           ELSE Get(data.is_active))
                    EXCEPT !.tailscale_url = Get(data.tailscale_url)]
            args == << new_server.tailscale_url >>
            health == Unpack(Call("check_health", CheckHealthParams, args,
                                  check_health(backend)))
            models == Call("get_models", GetModelsParams, args,
                           get_models(backend))
        IN  IF health.raised
            THEN /\ response' = [Answer("create", 0, 500) EXCEPT
                                    !.probes = Reached(CheckHealthParams, args)]
                 /\ UNCHANGED servers
            ELSE LET is_healthy == Get(health.value).v[1]
                     tested ==
                        [new_server EXCEPT
                            !.status = IF is_healthy THEN "online" ELSE "offline",
                            !.last_checked_at = Some(now),
                            !.last_error = IF is_healthy THEN None
                                           ELSE Get(health.value).v[2],
                            !.models_count = IF is_healthy /\ ~models.raised
                                             THEN Get(models.value).v ELSE 0]
                     id == NewId(DOMAIN servers)
                 IN  /\ servers' = [i \in DOMAIN servers \cup {id} |->
                                        IF i = id THEN tested ELSE servers[i]]
                     /\ response' = [Answer("create", id, 201) EXCEPT
                                        !.row = Some(tested), !.probes = 1]
    /\ RequestOnly

\* update_server stores status "error" when the test of the new URL raises
UpdateServerCatching(id, data) ==
    /\ IF id \notin DOMAIN servers
       THEN /\ response' = Answer("update", id, 404)
            /\ UNCHANGED servers
       ELSE LET server == servers[id]
                withUrl ==
                    IF IsNone(data.tailscale_url) THEN server
                    ELSE [server EXCEPT
                            !.tailscale_url = Get(data.tailscale_url),
                            !.status = "error",
                            !.last_checked_at = Some(now)]
                held == IF IsNone(data.is_active) THEN withUrl
                        ELSE [withUrl EXCEPT !.is_active = Get(data.is_active)]
            IN  /\ servers' = CommittedRow(id, held)
                /\ response' = [Answer("update", id, 200) EXCEPT
                                    !.row = Some(servers'[id])]
    /\ RequestOnly

\* ollama_servers.py:148-207: with a URL in the request the health is
\* checked again and status, last_error and last_checked_at are assigned; an
\* exception of that check leaves the handler before the commit
UpdateServer(id, data) ==
    /\ IF id \notin DOMAIN servers
       THEN /\ response' = Answer("update", id, 404)
            /\ UNCHANGED servers
       ELSE \E backend \in Backends :
            LET server == servers[id]
                recheck == ~IsNone(data.tailscale_url)
                args == << Get(data.tailscale_url) >>
                health == Unpack(Call("check_health", CheckHealthParams, args,
                                      check_health(backend)))
            IN  IF recheck /\ health.raised
                THEN /\ response' = [Answer("update", id, 500) EXCEPT
                                        !.probes = Reached(CheckHealthParams, args)]
                     /\ UNCHANGED servers
                ELSE LET withUrl ==
                            IF ~recheck THEN server
                            ELSE [server EXCEPT
                                    !.tailscale_url = Get(data.tailscale_url),
                                    !.status = IF Get(health.value).v[1]
                                               THEN "online" ELSE "offline",
                                    !.last_error = Get(health.value).v[2],
                                    !.last_checked_at = Some(now)]
                         held == IF IsNone(data.is_active) THEN withUrl
                                 ELSE [withUrl EXCEPT
                                        !.is_active = Get(data.is_active)]
                     IN  /\ servers' = CommittedRow(id, held)
                         /\ response' =
                                [Answer("update", id, 200) EXCEPT
                                    !.row = Some(servers'[id]),
                                    !.probes = IF recheck THEN 1 ELSE 0]
    /\ RequestOnly

\* ollama_servers.py:238-290
ManualCheck(id) ==
    /\ IF id \notin DOMAIN servers
       THEN /\ response' = Answer("check", id, 404)
            /\ UNCHANGED servers
       ELSE \E backend \in Backends :
            LET server == servers[id]
                args == << server.tailscale_url >>
                health == Unpack(Call("check_health", CheckHealthParams, args,
                                      check_health(backend)))
                models == Call("get_models", GetModelsParams, args,
                               get_models(backend))
            IN  IF health.raised
                THEN /\ response' = [Answer("check", id, 500) EXCEPT
                                        !.probes = Reached(CheckHealthParams, args)]
                     /\ UNCHANGED servers
                ELSE LET is_healthy == Get(health.value).v[1]
                         checked ==
                            [server EXCEPT
                                !.status = IF is_healthy THEN "online"
                                           ELSE "offline",
                                !.last_checked_at = Some(now),
                                !.last_error = Get(health.value).v[2]]
                         held ==
                            IF ~is_healthy THEN checked
                            ELSE [checked EXCEPT
                                    !.average_response_time_ms = Some("ms"),
                                    !.models_count =
                                        IF models.raised THEN @
                                        ELSE Get(models.value).v]
                     IN  /\ servers' = CommittedRow(id, held)
                         /\ response' =
                                [Answer("check", id, 200) EXCEPT
                                    !.row = Some(servers'[id]), !.probes = 1]
    /\ RequestOnly

\* ollama_servers.py:293-340
ListServerModels(id) ==
    /\ IF id \notin DOMAIN servers
       THEN response' = Answer("models", id, 404)
       ELSE \E backend \in Backends :
            LET args == << servers[id].tailscale_url >>
                models == Call("get_models", GetModelsParams, args,
                               get_models(backend))
            IN  response' =
                    IF models.raised
                    THEN [Answer("models", id, 503) EXCEPT
                            !.error = Some(models.str),
                            !.probes = Reached(GetModelsParams, args)]
                    ELSE [Answer("models", id, 200) EXCEPT
                            !.models_count = Some(Get(models.value).v),
                            !.probes = 1]
    /\ UNCHANGED servers
    /\ RequestOnly

\* the foreign key of chats.ollama_server_id without ON DELETE SET NULL
\* and unchecked
DeleteServerDangling(id) ==
    /\ IF id \notin DOMAIN servers
       THEN /\ response' = Answer("delete", id, 404)
            /\ UNCHANGED servers
       ELSE /\ servers' = [i \in DOMAIN servers \ {id} |-> servers[i]]
            /\ response' = Answer("delete", id, 204)
    /\ UNCHANGED << chatTable, creating >>
    /\ MonitorAside

\* ollama_servers.py:210-235 and the foreign key fk_chats_ollama_server of
\* the migration (54-61): ON DELETE SET NULL
DeleteServer(id) ==
    /\ IF id \notin DOMAIN servers
       THEN /\ response' = Answer("delete", id, 404)
            /\ UNCHANGED << servers, chatTable >>
       ELSE /\ servers' = [i \in DOMAIN servers \ {id} |-> servers[i]]
            /\ chatTable' =
                    [k \in DOMAIN chatTable |->
                        IF chatTable[k].ollama_server_id = Some(id)
                        THEN [chatTable[k] EXCEPT !.ollama_server_id = None]
                        ELSE chatTable[k]]
            /\ response' = Answer("delete", id, 204)
    /\ UNCHANGED creating
    /\ MonitorAside

\* the table as earlier runs left it; the monitor has not been started
InitRequests ==
    /\ dbChat = None
    /\ dbChatSettings = None
    /\ dbProject = None
    /\ dbGlobal = None
    /\ dbMessages = <<>>
    /\ enable_auto_title = TRUE
    /\ message = <<"q">>
    /\ InitTurn
    /\ NoTurns
    /\ NoApi
    /\ NoGeneration
    /\ servers \in [ServerIds -> StoredServers]
    /\ now = 1
    /\ hmPc = "stopped"
    /\ hmSession = NoRows
    /\ hmQueue = <<>>
    /\ hmLoaded = NoRows
    /\ probed = [i \in ServerIds |-> None]
    /\ hmLast = "none"
    /\ running = FALSE
    /\ hmTasks = 0
    /\ hmStarts = 0
    /\ hmStops = 0
    /\ cancelRequested = FALSE
    /\ stopPc = "idle"
    /\ hmLog = "none"

\* the requests of the server endpoints and of the status endpoint
NextRequests ==
    \/ StatusRequest
    \/ \E id \in RequestIds : GetServer(id)
    \/ \E data \in ServerData : CreateServer(data)
    \/ \E id \in RequestIds, data \in ServerData : UpdateServer(id, data)
    \/ \E id \in RequestIds : ManualCheck(id)
    \/ \E id \in RequestIds : ListServerModels(id)
    \/ \E id \in RequestIds : DeleteServer(id)

SpecRequests == InitRequests /\ [][NextRequests]_vars

\* the monitor's loop and manual health checks beside it
NextChecks ==
    \/ LoadServers
    \/ CheckServer
    \/ CommitPass
    \/ RollbackPass
    \/ Sleep
    \/ \E id \in RequestIds : ManualCheck(id)

SpecChecks == InitMonitor /\ [][NextChecks]_vars

-----------------------------------------------------------------------------
(* The writers of the health fields one after the other: each request and    *)
(* each pass of the monitor runs from its beginning to its end before the    *)
(* next begins                                                               *)

\* health_monitor.py:56-90: one pass from the select to the commit or the
\* rollback, and the interval after it; what the pass's session held is gone
\* when it ends
MonitorPass ==
    /\ hmPc = "load"
    /\ running
    /\ ~cancelRequested
    /\ LET active == { i \in DOMAIN servers : servers[i].is_active }
           loaded == [i \in active |-> servers[i]]
       IN  \/ /\ active = {}
              /\ hmLast' = "empty"
              /\ UNCHANGED servers
           \/ /\ active # {}
              /\ servers' \in
                    { Committed(
                        servers,
                        [i \in active |-> CheckedRow(servers[i], backends[i], now)],
                        loaded) : backends \in [active -> Backends] }
              /\ hmLast' = "committed"
           \/ /\ hmLast' \in {"rolled_back", "raised"}
              /\ UNCHANGED servers
    /\ now' = IF now < MaxPasses THEN now + 1 ELSE now
    /\ UNCHANGED << hmPc, hmSession, hmQueue, hmLoaded, probed >>
    /\ LoopOnly

NextSequential ==
    \/ MonitorPass
    \/ \E data \in ServerData : CreateServer(data)
    \/ \E id \in RequestIds, data \in ServerData : UpdateServer(id, data)
    \/ \E id \in RequestIds : ManualCheck(id)

\* the loop has been started; the table holds two servers, each as inserted
\* or as an earlier pass stored it
InitSequential ==
    /\ dbChat = None
    /\ dbChatSettings = None
    /\ dbProject = None
    /\ dbGlobal = None
    /\ dbMessages = <<>>
    /\ enable_auto_title = TRUE
    /\ message = <<"q">>
    /\ InitTurn
    /\ NoTurns
    /\ NoApi
    /\ NoGeneration
    /\ servers \in [{1, 2} -> StoredServers]
    /\ now = 1
    /\ hmPc = "load"
    /\ hmSession = NoRows
    /\ hmQueue = <<>>
    /\ hmLoaded = NoRows
    /\ probed = [i \in ServerIds |-> None]
    /\ hmLast = "none"
    /\ running = TRUE
    /\ hmTasks = 1
    /\ hmStarts = 1
    /\ hmStops = 0
    /\ cancelRequested = FALSE
    /\ stopPc = "idle"
    /\ hmLog = "started"

SpecSequential == InitSequential /\ [][NextSequential]_vars

-----------------------------------------------------------------------------
(* create_chat, chats.py:144-213, and the chats' reference to a server *)

\* ollama_server_id of a ChatCreate: none, a stored server's id or another id
ServerRefs == {None} \cup { Some(i) : i \in RequestIds }

\* Chat(ollama_server_id=...): the class of models/chat.py declares no such
\* column although the migration adds it; whether the constructor takes the
\* keyword is decided by the Base of app/db/base.py
ChatTakesServerId == BOOLEAN

\* the request leaves the servers and the monitor as they are
ChatOnly ==
    /\ MonitorAside
    /\ UNCHANGED servers

\* chats.py:160-175: an id that no server has is answered 400
ValidateChat(ref) ==
    /\ IsNone(creating)
    /\ Len(chatTable) < MaxChats
    /\ IF ~IsNone(ref) /\ Get(ref) \notin DOMAIN servers
       THEN /\ response' = Answer("create_chat", Get(ref), 400)
            /\ UNCHANGED creating
       ELSE /\ creating' = Some(ref)
            /\ UNCHANGED response
    /\ UNCHANGED chatTable
    /\ ChatOnly

\* chats.py:177-213: the chat is constructed, added and flushed; the INSERT
\* is held to the foreign key of the migration (54-61), so a server deleted
\* since the validation fails it; every exception is answered 500
InsertChat ==
    /\ ~IsNone(creating)
    /\ LET ref == Get(creating)
       IN  \E taken \in ChatTakesServerId :
            IF ~taken \/ (~IsNone(ref) /\ Get(ref) \notin DOMAIN servers)
            THEN /\ response' = Answer("create_chat", 0, 500)
                 /\ UNCHANGED chatTable
            ELSE /\ chatTable' =
                        Append(chatTable,
                               [ollama_server_id |-> ref, requested |-> ref])
                 /\ response' = Answer("create_chat", 0, 201)
    /\ creating' = None
    /\ ChatOnly

NextChats ==
    \/ \E ref \in ServerRefs : ValidateChat(ref)
    \/ InsertChat
    \/ \E id \in RequestIds : DeleteServer(id)

SpecChats == InitRequests /\ [][NextChats]_vars

-----------------------------------------------------------------------------
(* generate_and_update_title called on its own, messages.py:27-114; the      *)
(* title model answers the request built from the chat's first user and      *)
(* first assistant texts the same way each time it is asked                  *)

\* message.content of the reply: texts of a few characters (letter, space,
\* quotes, newline, tab, carriage return), alone and after a text two
\* characters short of the limit of line 292
Replies ==
    LET chars  == {"a", " ", "'", "\"", "\n", "\t", "\r"}
        short  == UNION { [1..n -> chars] : n \in 0..MaxReplyLen }
        prefix == [i \in 1..(MaxTitleLen - 2) |-> "a"]
    IN  short \cup { prefix \o r : r \in short }

\* the backend is unreachable while it serves its first max_attempts calls
TitleReplyAfterOutage(call) == IF call <= max_attempts THEN None ELSE reply

\* ollama_service.py:273-278: what client.chat answers on the call-th title
\* request for this chat, None when it raises; the request holds the same
\* texts each time (messages.py:58-80), so the answer is the same
TitleReply(call) == reply

\* messages.py:37-111: the early returns, the retry loop and the assignment;
\* an exception of a query or of the flush is caught at line 113 and leaves
\* the chat as it was
GenerateAndUpdateTitle ==
    /\ Len(titlesAfter) < MaxInvocations
    /\ LET due ==
               /\ enable_auto_title
               /\ ~IsNone(dbChat)
               /\ Get(dbChat).title = NewChat
               /\ Count(dbMessages, "user") > 0
               /\ Count(dbMessages, "assistant") > 0
           served(k) == TitleReply(backendCalls[2] + k)
           succeeded == { k \in 1..max_attempts : ~IsNone(served(k)) }
           made == IF succeeded = {} THEN max_attempts
                   ELSE CHOOSE k \in succeeded : \A j \in succeeded : k <= j
           result == IF succeeded = {} THEN None
                     ELSE Some(CleanTitle(Get(served(made))))
           usable == ~IsNone(result) /\ Get(result) # <<>> /\ Get(result) # NewChat
       IN  \/ /\ IF due
                 THEN /\ backendCalls' = [backendCalls EXCEPT ![2] = @ + made]
                      /\ generated' = result
                      /\ dbChat' = IF usable THEN WithTitle(dbChat, result) ELSE dbChat
                 ELSE UNCHANGED << backendCalls, generated, dbChat >>
              /\ titlesAfter' =
                    Append(titlesAfter, [chat |-> dbChat', completed |-> TRUE])
           \/ /\ enable_auto_title
              /\ titlesAfter' =
                    Append(titlesAfter, [chat |-> dbChat, completed |-> FALSE])
              /\ UNCHANGED << backendCalls, generated, dbChat >>
           \/ /\ due
              /\ usable
              /\ backendCalls' = [backendCalls EXCEPT ![2] = @ + made]
              /\ generated' = result
              /\ titlesAfter' =
                    Append(titlesAfter, [chat |-> dbChat, completed |-> FALSE])
              /\ UNCHANGED dbChat
    /\ UNCHANGED << dbChatSettings, dbProject, dbGlobal, dbMessages, inputVars,
                    raceVars, monitorVars, apiVars, session, pending,
                    pendingTitle, pc, resolveVars, streamVars, exc, events,
                    disconnected, titleVars, reply >>

\* a chat with or without its first exchange, and every reply
InitTitle ==
    /\ InitDb({}, {})
    /\ dbGlobal = None
    /\ enable_auto_title \in BOOLEAN
    /\ message = <<"q">>
    /\ InitTurn
    /\ NoTurns
    /\ NoMonitor
    /\ NoApi
    /\ reply \in {None} \cup { Some(r) : r \in Replies }
    /\ generated = None
    /\ titlesAfter = <<>>

NextTitle == GenerateAndUpdateTitle

SpecTitle == InitTitle /\ [][NextTitle]_vars

-----------------------------------------------------------------------------
(* Properties *)

Last(seq) == seq[Len(seq)]

\* rows of this turn with the given role
TurnRows(rows, role) == SelectSeq(rows, LAMBDA r : r.turn = 1 /\ r.role = role)

TerminalIndexes == { i \in 1..Len(events) : IsTerminal(events[i]) }

\* the content events, in the order the caller received them
ContentEvents == SelectSeq(events, IsContent)

\* f1 + ... + fn
Concat(fs) == Join(fs, <<>>)

\* C1: at every moment the caller has received at most one terminal event
\* (done or error, never both) and nothing after it; and when the generator has
\* finished without the caller having closed the stream, the caller has
\* received exactly one terminal event, a done event being exactly
\* {content: "", done: true}.
C1_ExactlyOneTerminalEvent ==
    /\ Cardinality(TerminalIndexes) <= 1
    /\ \A i \in TerminalIndexes : i = Len(events)
    /\ \A i \in TerminalIndexes : IsDone(events[i]) => events[i] = DoneEvent
    /\ \A i \in TerminalIndexes : ~(IsDone(events[i]) /\ IsError(events[i]))
    /\ (pc \in {"finally", "closed"} /\ ~disconnected)
          => Cardinality(TerminalIndexes) = 1

\* a turn that failed after a fragment was relayed: content event, then error
C1_Witness ==
    /\ pc = "closed"
    /\ ~disconnected
    /\ Len(events) = 2
    /\ IsContent(events[1])
    /\ IsError(events[2])
    /\ exc.type = "Exception"

\* C2: once the fragment sequence f1..fn is exhausted the caller has been
\* handed exactly the content events of f1..fn in order; a persisted
\* assistant turn is the only one of the turn and its text is f1+...+fn; and
\* when the turn ends with no storage failure the events are those n content
\* events followed by exactly one done event and the assistant turn is stored.
C2_FragmentsRelayedAndConcatenated ==
    /\ stream = "exhausted" =>
          ContentEvents = [i \in 1..Len(fragments) |-> ContentEvent(fragments[i])]
    /\ TurnRows(dbMessages, "assistant") # <<>> =>
          TurnRows(dbMessages, "assistant") = << AssistantRow(Concat(fragments)) >>
    /\ (pc = "closed" /\ stream = "exhausted" /\ exc = NoException) =>
          /\ events = [i \in 1..Len(fragments) |-> ContentEvent(fragments[i])]
                          \o << DoneEvent >>
          /\ TurnRows(dbMessages, "assistant") = << AssistantRow(Concat(fragments)) >>

\* two fragments whose concatenation is not either of them
C2_Witness ==
    /\ pc = "closed"
    /\ stream = "exhausted"
    /\ exc = NoException
    /\ fragments = << <<"a">>, <<"b", "c">> >>
    /\ Len(events) = 3
    /\ TurnRows(dbMessages, "assistant") = << AssistantRow(<<"a", "b", "c">>) >>

\* C3 as claimed: after a connection error raised before any fragment, the
\* user turn with the original text is durably stored, no assistant turn is,
\* and the caller has received exactly one error event.
C3_UserTurnDurableAfterConnectionError ==
    (pc = "closed" /\ exc.type = "OllamaConnectionError" /\ fragments = <<>>) =>
        /\ TurnRows(dbMessages, "user") = << UserRow(message) >>
        /\ TurnRows(dbMessages, "assistant") = <<>>
        /\ Len(events) = 1
        /\ IsError(events[1])

\* C4: an assistant turn is in storage (flushed or committed) only once the
\* fragment sequence is exhausted, it then holds the whole accumulated text,
\* and there is at most one; a sequence that failed or was abandoned leaves no
\* assistant turn.
C4_NoPartialAssistantTurn ==
    LET stored == TurnRows(dbMessages \o pending, "assistant")
    IN  /\ Len(stored) <= 1
        /\ stored # <<>> =>
              /\ stream = "exhausted"
              /\ stored[1].content = Concat(fragments)
        /\ stream \in {"unopened", "open", "failed", "abandoned"} => stored = <<>>

\* the backend failed after a fragment had been relayed
C4_Witness ==
    /\ pc = "closed"
    /\ stream = "failed"
    /\ Len(fragments) >= 1
    /\ full_response # <<>>
    /\ TurnRows(dbMessages, "assistant") = <<>>

\* one more witness of C4's other case: the caller left after a fragment
C4_WitnessAbandoned ==
    /\ pc = "closed"
    /\ stream = "abandoned"
    /\ full_response # <<>>
    /\ TurnRows(dbMessages, "assistant") = <<>>

\* C5: in every storage state the user turn of the streamed turn is durable
\* exactly when its assistant turn is.
C5_TurnsDurableTogether ==
    (TurnRows(dbMessages, "user") # <<>>) <=> (TurnRows(dbMessages, "assistant") # <<>>)

\* both turns durable after the commit of line 421
C5_Witness ==
    /\ pc = "count_assistants"
    /\ TurnRows(dbMessages, "user") = << UserRow(message) >>
    /\ Len(TurnRows(dbMessages, "assistant")) = 1

\* the candidate values of the cascade, None where the level has none
ChatLevel(field) ==
    IF IsNone(dbChatSettings) THEN None ELSE Get(dbChatSettings)[field]

ProjectLevel(field) == IF IsNone(dbProject) THEN None ELSE Get(dbProject)[field]

GlobalLevel(field) == IF IsNone(dbGlobal) THEN None ELSE Some(Get(dbGlobal)[field])

RECURSIVE FirstPresent(_, _)
\* the first candidate that is present, else the fallback
FirstPresent(candidates, fallback) ==
    IF candidates = <<>> THEN fallback
    ELSE IF ~IsNone(Head(candidates)) THEN Get(Head(candidates))
    ELSE FirstPresent(Tail(candidates), fallback)

\* C6: the temperature used for the turn is the chat value when present, else
\* the project value, else the global value, else 0.7 (7 tenths); max-tokens
\* is resolved by the same cascade with fallback 2048.
C6_ParameterCascade ==
    /\ ~IsNone(temperature) =>
          Get(temperature) =
              FirstPresent(<< ChatLevel("temperature"), ProjectLevel("temperature"),
                              GlobalLevel("default_temperature") >>, 7)
    /\ ~IsNone(max_tokens) =>
          Get(max_tokens) =
              FirstPresent(<< ChatLevel("max_tokens"), ProjectLevel("max_tokens"),
                              GlobalLevel("default_max_tokens") >>, 2048)

\* a chat override row with no temperature, a project temperature of 0.0 and
\* a global row: the project's 0.0 is used, the project has no max-tokens
C6_Witness ==
    /\ ~IsNone(dbChatSettings)
    /\ IsNone(Get(dbChatSettings).temperature)
    /\ ~IsNone(dbProject)
    /\ Get(dbProject).temperature = Some(0)
    /\ IsNone(Get(dbProject).max_tokens)
    /\ ~IsNone(dbGlobal)
    /\ temperature = Some(0)
    /\ max_tokens = Some(256)

\* the fallbacks are used when no level holds a value
C6_WitnessFallback ==
    /\ IsNone(dbChatSettings)
    /\ IsNone(dbProject)
    /\ IsNone(dbGlobal)
    /\ temperature = Some(7)
    /\ max_tokens = Some(2048)

\* C7: the user turn stored for the turn (flushed or committed) holds the
\* caller's message exactly, whatever project and files the chat has; file
\* bodies and instructions are in the list sent to the backend only.
C7_StoredUserTextIsOriginal ==
    \A i \in 1..Len(dbMessages \o pending) :
        LET r == (dbMessages \o pending)[i]
        IN  (r.turn = 1 /\ r.role = "user") => r.content = message

\* a project with files: the file body went to the backend in the system
\* element and the committed user turn holds the message only
C7_Witness ==
    /\ ~IsNone(dbProject)
    /\ Get(dbProject).files # <<>>
    /\ TurnRows(dbMessages, "user") = << UserRow(message) >>
    /\ ollama_messages[1].role = "system"
    /\ Contains(ollama_messages[1].content, "x")
    /\ backendCalls[1] = 1

SystemSegments == SelectSeq(ollama_messages, LAMBDA m : m.role = "system")

HasInstructions ==
    /\ ~IsNone(dbProject)
    /\ ~IsNone(Get(dbProject).custom_instructions)
    /\ Get(Get(dbProject).custom_instructions) # <<>>

HasFiles == ~IsNone(dbProject) /\ Get(dbProject).files # <<>>

\* C8: the assembled list holds a system segment exactly when the chat's
\* project has non-empty instructions or at least one file; absent
\* instructions contribute no "Project Context:" header and an empty file set
\* no "Project Files:" header or file marker.
C8_SystemSegmentIffProjectContent ==
    ollama_messages # <<>> =>
        /\ (SystemSegments # <<>>) <=> (HasInstructions \/ HasFiles)
        /\ Len(SystemSegments) <= 1
        /\ \A i \in 1..Len(SystemSegments) :
              /\ Contains(SystemSegments[i].content, "Project Context:")
                    <=> HasInstructions
              /\ Contains(SystemSegments[i].content, "Project Files:") <=> HasFiles
              /\ Contains(SystemSegments[i].content, "[File: ") <=> HasFiles

\* a project with instructions and no file: a segment with no files header
C8_Witness ==
    /\ ollama_messages # <<>>
    /\ HasInstructions
    /\ ~HasFiles
    /\ Len(SystemSegments) = 1
    /\ ~Contains(SystemSegments[1].content, "Project Files:")

\* an empty project: no segment
C8_WitnessEmptyProject ==
    /\ ollama_messages # <<>>
    /\ ~IsNone(dbProject)
    /\ ~HasInstructions
    /\ ~HasFiles
    /\ SystemSegments = <<>>

\* C9: when the chat does not exist nothing is written (no flushed or
\* committed turn, no title change), the backend is never called, and the
\* finished turn has emitted exactly one event, an error event.
C9_ChatNotFoundWritesNothing ==
    IsNone(dbChat) =>
        /\ dbMessages = <<>>
        /\ pending = <<>>
        /\ IsNone(pendingTitle)
        /\ backendCalls = <<0, 0>>
        /\ pc \in {"at_terminal_yield", "finally", "closed"} =>
              /\ Len(events) = 1
              /\ IsError(events[1])
        /\ (pc = "closed" /\ exc = NoException) => events = << ChatNotFoundEvent >>

C9_Witness ==
    /\ IsNone(dbChat)
    /\ pc = "closed"
    /\ session = "closed"
    /\ events = << ChatNotFoundEvent >>

\* C10 as claimed: the terminal event of a turn that failed with
\* model-not-found carries an error that neither the connection-error event
\* nor the event of another unexpected failure carries.
C10_ModelNotFoundDistinct ==
    (exc.type = "OllamaModelNotFoundError" /\ pc = "closed") =>
        /\ Len(events) >= 1
        /\ IsError(Last(events))
        /\ Last(events).error # ExceptionEvent(ClassifyError(<<"connection refused">>)).error
        /\ Last(events).error # ExceptionEvent(StorageError).error


-----------------------------------------------------------------------------
(* The caller closes the stream *)

\* C11: once the caller has disconnected mid-stream no further chunk is read
\* from the backend's stream and no backend call is made, no assistant row of
\* the turn is ever stored, and the generator ends with its session closed; a
\* turn that ends any other way also ends with the session it opened closed
\* and nothing left uncommitted in it
C11_DisconnectStopsPullingAndClosesSession ==
    /\ [](/\ disconnected => TurnRows(SessionMessages, "assistant") = <<>>
          /\ pc = "closed" =>
                /\ pending = <<>>
                /\ pendingTitle = None
                /\ \/ session = "closed"
                   \/ session = "none" /\ exc.str = "session factory failure")
    /\ [][disconnected =>
            /\ pulled' = pulled
            /\ fragments' = fragments
            /\ backendCalls' = backendCalls
            /\ dbMessages' = dbMessages]_vars

\* the caller disconnected after a fragment, with chunks still to be read, and
\* the generator has ended
C11_Witness ==
    /\ pc = "closed"
    /\ disconnected
    /\ Len(ContentEvents) >= 1
    /\ pulled < MaxChunks
    /\ session = "closed"


-----------------------------------------------------------------------------
(* Pacing *)

\* fragments stream_chat has yielded whose content event the caller has not
\* been handed
Unforwarded == Len(fragments) - Len(ContentEvents)

\* C12: at most one fragment is held un-forwarded at any time, and a step that
\* reads from the backend's stream (the next chunk, its end or its failure) is
\* taken only when every fragment yielded so far has been handed to the caller
C12_Backpressure ==
    /\ [](/\ Unforwarded \in {0, 1}
          /\ Unforwarded = 1 <=> ~IsNone(chunk))
    /\ [][pulled' # pulled \/ stream' \in {"exhausted", "failed"} \ {stream}
            => Unforwarded = 0]_vars

\* the second fragment is held while the first has been handed over
C12_Witness ==
    /\ Len(fragments) = 2
    /\ Len(ContentEvents) = 1
    /\ ~IsNone(chunk)
    /\ pc = "relay"


-----------------------------------------------------------------------------
(* Title generation *)

\* a step that makes a title-generation call to the backend
TitleCallMade == backendCalls'[2] > backendCalls[2]

\* C13: a title-generation call is made only when the chat holds exactly one
\* assistant row (the one the turn has just committed), the stored title is
\* "New Chat" and enable_auto_title is set
C13_TitleCallOnlyWhenDue ==
    [][TitleCallMade =>
        /\ enable_auto_title
        /\ Get(dbChat).title = NewChat
        /\ Count(dbMessages, "assistant") = 1
        /\ TurnRows(dbMessages, "assistant") # <<>>]_vars

\* a title call has been made and has returned a title
C13_Witness ==
    /\ backendCalls[2] >= 1
    /\ enable_auto_title
    /\ pc = "title_update"

\* the first assistant row of a renamed chat is stored and no call is made
C13_WitnessRenamed ==
    /\ pc = "closed"
    /\ enable_auto_title
    /\ Count(dbMessages, "assistant") = 1
    /\ TurnRows(dbMessages, "assistant") # <<>>
    /\ Get(dbChat).title = <<"T">>
    /\ backendCalls[2] = 0


\* the chat's title as the turn's session sees it
SessionTitle == IF IsNone(pendingTitle) THEN Get(dbChat).title ELSE Get(pendingTitle)

\* generate_and_update_title has returned, or its change has been committed
TitleReturned == pc \in {"title_commit", "emit_done"}

\* the second attempt was made and returned a title
SecondAttemptSucceeded == backendCalls[2] = 2 /\ ~IsNone(title)

\* both attempts were made and both failed
BothAttemptsFailed == backendCalls[2] = 2 /\ IsNone(title)

\* at most two calls, the second only while no title has been returned; after
\* two failures the title is still "New Chat" and no exception is raised
RetryDiscipline ==
    /\ [](/\ backendCalls[2] <= 2
          /\ TitleReturned /\ BothAttemptsFailed =>
                /\ SessionTitle = NewChat
                /\ IsNone(pendingTitle)
                /\ exc = NoException)
    /\ [][TitleCallMade /\ backendCalls[2] >= 1 =>
            /\ IsNone(title)
            /\ attempt = 2]_vars

\* C14 as stated: ... and when the first attempt fails and the second succeeds
\* the title is the second attempt's result
C14_TitleRetry ==
    /\ RetryDiscipline
    /\ [](TitleReturned /\ SecondAttemptSucceeded => SessionTitle = Get(title))

\* C14, amended: one invocation makes at most two attempts, the second only
\* after the first failed; when the first fails and the second succeeds the
\* title is the second attempt's result if that result is not empty, and
\* stays "New Chat" if it is empty; when both fail the title stays "New Chat"
\* and no exception is raised
C14_TitleRetryNonEmptyResult ==
    /\ RetryDiscipline
    /\ [](TitleReturned /\ SecondAttemptSucceeded =>
            SessionTitle = IF Get(title) = <<>> THEN NewChat ELSE Get(title))

\* the first attempt failed, the second returned "W" and the title is stored
C14_Witness ==
    /\ pc = "emit_done"
    /\ backendCalls[2] = 2
    /\ title = Some(<<"W">>)
    /\ Get(dbChat).title = <<"W">>

\* both attempts failed and the function has returned
C14_WitnessBothFailed ==
    /\ pc = "emit_done"
    /\ BothAttemptsFailed
    /\ Get(dbChat).title = NewChat


\* at least one title call of the turn failed
SomeTitleCallFailed ==
    /\ backendCalls[2] >= 1
    /\ IsNone(title) \/ backendCalls[2] = 2

\* C15: a turn in which a title call failed (once, or both times, with a
\* connection or a model-not-found error) ends with the user row and the
\* assistant row stored as the stream produced them, and, unless a storage
\* call failed, with done as its only terminal event
C15_TitleFailureNeverFailsTurn ==
    pc = "closed" /\ SomeTitleCallFailed =>
        /\ TurnRows(dbMessages, "user") = << UserRow(message) >>
        /\ TurnRows(dbMessages, "assistant") = << AssistantRow(Concat(fragments)) >>
        /\ exc # StorageError =>
            /\ exc = NoException
            /\ Last(events) = DoneEvent
            /\ Cardinality(TerminalIndexes) = 1

\* both title calls failed and the turn has ended with done
C15_Witness ==
    /\ pc = "closed"
    /\ BothAttemptsFailed
    /\ Last(events) = DoneEvent
    /\ Len(fragments) >= 1


\* generate_and_update_title is running, or its change awaits the commit
TitlePhase == {"title_start", "title_attempt", "title_update", "title_commit"}

DoneEmitted == \E i \in 1..Len(events) : IsDone(events[i])

\* C16 as stated: done does not wait for title generation: while the title
\* call, its retry or the title commit is outstanding, done has been emitted
\* or can be emitted
C16_DoneNotBlockedOnTitle ==
    pc \in TitlePhase => DoneEmitted \/ ENABLED EmitDone

\* C16, amended: done waits for title generation: while the title call, its
\* retry or the title commit is outstanding done is not emitted and cannot
\* be, and once done is emitted the title work is over and a title that was
\* generated is committed
C16_DoneAfterTitle ==
    /\ pc \in TitlePhase => ~DoneEmitted /\ ~ENABLED EmitDone
    /\ DoneEmitted =>
        /\ pc \notin TitlePhase
        /\ IsNone(pendingTitle)
        /\ ~IsNone(title) /\ Get(title) \notin {<<>>, NewChat} =>
                Get(dbChat).title = Get(title)

\* done has been emitted after a failed call, a second call and the commit
C16_Witness ==
    /\ DoneEmitted
    /\ backendCalls[2] = 2
    /\ Get(dbChat).title = <<"W">>


-----------------------------------------------------------------------------
(* Turns on separate connections *)

\* C17: over every interleaving of the connections' turns and the user's
\* renames, the retry loop of title generation is entered at most once and a
\* generated title is committed at most once
C17_TitledAtMostOnce ==
    /\ titleRuns <= 1
    /\ titleWrites <= 1

\* two connections have committed an assistant row each and closed, the chat
\* had none before, and title generation ran once without storing a title
C17_Witness ==
    /\ \A t \in {1, 2} : turns[t].pc = "closed"
    /\ assistantRows = 2
    /\ titleRuns = 1
    /\ titleWrites = 0
    /\ chatTitle = NewChat

\* both connections were counting at the same time and the title was stored
C17_WitnessConcurrent ==
    /\ turns[1].pc = "done"
    /\ turns[2].pc = "done"
    /\ titleWrites = 1


-----------------------------------------------------------------------------
(* Monitor passes *)

\* the last pass checked servers and committed, and the loop is waiting
PassCommitted == hmPc = "sleep" /\ hmLast = "committed"

\* C18: after a pass has committed, a server whose probe failed (timeout, HTTP
\* error) is stored offline with the probe's error text, a server whose
\* check raised an unexpected exception is stored with status error and the
\* exception's text, and a server that answered and lists n models is stored
\* online with models_count n
C18_CheckOutcomeRecorded ==
    PassCommitted =>
        \A i \in DOMAIN hmLoaded :
            LET backend == Get(probed[i])
                server == servers[i]
            IN  /\ backend.health \in {"timeout", "http_error"} =>
                    /\ server.status = "offline"
                    /\ server.last_error = Some(check_health(backend).str)
                /\ backend.health = "invalid_url" =>
                    /\ server.status = "error"
                    /\ server.last_error = Some(check_health(backend).str)
                /\ backend.health = "up" /\ ~IsNone(backend.models) =>
                    /\ server.status = "online"
                    /\ server.models_count = Get(backend.models)

\* C19: a pass that loaded servers reaches its commit, or ends, only after
\* it has checked every one of them, whatever the checks of the others
\* raised or returned, and the row it holds and commits for a server is
\* the outcome of that server's own check
C19_EveryActiveServerChecked ==
    /\ hmPc \in {"commit", "rollback", "sleep"} =>
            \A i \in DOMAIN hmLoaded : ~IsNone(probed[i])
    /\ hmPc = "commit" =>
            \A i \in DOMAIN hmLoaded :
                hmSession[i] = CheckedRow(hmLoaded[i], Get(probed[i]), now)
    /\ PassCommitted =>
            /\ DOMAIN hmLoaded = { i \in ServerIds : servers[i].is_active }
            /\ \A i \in DOMAIN hmLoaded :
                    servers[i] = CheckedRow(hmLoaded[i], Get(probed[i]), now)

\* a pass over two servers has committed: the first timed out, the second
\* answered, and both rows carry the pass's time
C19_Witness ==
    /\ PassCommitted
    /\ DOMAIN hmLoaded = {1, 2}
    /\ Get(probed[1]).health = "timeout"
    /\ Get(probed[2]).health = "up"
    /\ \A i \in {1, 2} : servers[i].last_checked_at = Some(now)

\* C20: after a pass has committed, a server that answered the probe and
\* failed to list its models is stored online with no error text, its
\* models_count zero or what it was before the pass
C20_ListFailureKeepsOnline ==
    PassCommitted =>
        \A i \in DOMAIN hmLoaded :
            Get(probed[i]) = [health |-> "up", models |-> None] =>
                /\ servers[i].status = "online"
                /\ servers[i].last_error = None
                /\ servers[i].models_count \in {0, hmLoaded[i].models_count}


-----------------------------------------------------------------------------
(* Monitor lifecycle *)

\* the loop's task is inside _check_all_servers
InPass == hmPc \in {"load", "check", "commit", "rollback"}

\* C21: while the monitor is running no exception ends the polling loop: its
\* task finishes only when stop() has cancelled it, every pass, also one
\* whose select, checks, commit or rollback raised, comes to the wait of the
\* interval, and every wait is followed by the start of another pass, unless
\* stop() is called
C21_LoopSurvivesExceptions ==
    /\ [][hmTasks' < hmTasks => cancelRequested]_vars
    /\ InPass ~> (hmPc = "sleep" \/ ~running)
    /\ (hmPc = "sleep") ~> (hmPc = "load" \/ ~running)

\* the loop has begun another pass after a pass whose rollback raised
C21_Witness ==
    /\ running
    /\ hmPc = "load"
    /\ hmLast = "raised"

\* C22: whatever start() and stop() calls were made one after another, at
\* most one task runs the polling loop, and exactly one while the monitor is
\* running; a start() while running logs a warning and creates no task
C22_AtMostOneLoop ==
    /\ [](hmTasks <= 1)
    /\ [](running => hmTasks = 1 /\ ~cancelRequested)
    /\ [][(running /\ running' /\ hmLog' # hmLog) =>
            /\ hmLog' = "already running"
            /\ UNCHANGED << hmTasks, hmStarts, hmPc >>]_vars

\* start(), stop(), start() and start() again: one loop is live
C22_Witness ==
    /\ hmStarts = 2
    /\ hmStops >= 1
    /\ running
    /\ hmLog = "already running"
    /\ hmTasks = 1

\* C23: stop() returns only when the loop's task has finished; while the
\* monitor is stopped and no stop() is under way no task is left, no pass
\* starts and no server row changes; this also after a second stop() and
\* after a stop() that no start() preceded
C23_StopAwaitsLoopExit ==
    /\ [][(stopPc = "awaiting" /\ stopPc' = "idle") =>
            hmTasks = 0 /\ hmPc = "cancelled"]_vars
    /\ []((~running /\ stopPc = "idle") =>
            /\ hmTasks = 0
            /\ ~cancelRequested
            /\ hmPc \in {"stopped", "cancelled"})
    /\ [][(~running /\ stopPc = "idle" /\ ~running') =>
            servers' = servers /\ hmPc' = hmPc]_vars

\* stop() has been called twice after one start() and has returned
C23_Witness ==
    /\ hmStarts = 1
    /\ hmStops = 2
    /\ stopPc = "idle"
    /\ ~running
    /\ hmPc = "cancelled"

\* stop() was called before any start()
C23_WitnessBeforeStart ==
    /\ hmStarts = 0
    /\ hmStops = 1
    /\ hmLog = "stopped"
    /\ hmPc = "stopped"

\* C24: the loop's task ends only between passes: while it waits the
\* interval, or at the latest before the select of a pass has returned; a
\* pass that holds its servers is not ended before its commit
C24_StopOnlyBetweenPasses ==
    [][(hmPc # "cancelled" /\ hmPc' = "cancelled") =>
            hmPc \in {"sleep", "load"}]_vars

\* C25: the server rows change only in the one step in which a pass
\* commits, and then every server the pass loaded gets the row its check
\* produced; a commit that fails and the rollback after it change no row
C25_PassCommitsTogether ==
    /\ [][servers' # servers =>
            /\ hmPc = "commit"
            /\ DOMAIN hmSession = DOMAIN hmLoaded
            /\ \A i \in DOMAIN hmLoaded :
                    servers'[i] = CheckedRow(hmLoaded[i], Get(probed[i]), now)]_vars
    /\ [][(hmPc = "rollback" \/ hmPc' = "rollback") =>
            servers' = servers]_vars

\* a pass over all the servers has committed and every row is a checked row
C25_Witness ==
    /\ PassCommitted
    /\ Cardinality(DOMAIN hmLoaded) >= 2
    /\ \A i \in DOMAIN hmLoaded :
            servers[i] = CheckedRow(hmLoaded[i], Get(probed[i]), now)
    /\ \A i \in DOMAIN hmLoaded : servers[i] # hmLoaded[i]

\* a pass checked its servers, its commit failed and it was rolled back:
\* the rows are those it loaded
C25_WitnessRolledBack ==
    /\ hmPc = "sleep"
    /\ hmLast = "rolled_back"
    /\ DOMAIN hmLoaded # {}
    /\ \A i \in DOMAIN hmLoaded : ~IsNone(probed[i]) /\ servers[i] = hmLoaded[i]


-----------------------------------------------------------------------------
(* Server endpoints *)

\* the active servers stored with status online
StoredOnline ==
    { i \in DOMAIN servers : servers[i].is_active /\ servers[i].status = "online" }

\* C26: the answer of a status request is made without a call to a backend
\* and from the stored rows alone: connected exactly when an active server
\* is stored online, and then with that server's URL and stored models_count
C26_StatusFromStoredState ==
    [][(response'.op = "status" /\ response' # response) =>
            /\ response'.probes = 0
            /\ response'.connected = (StoredOnline # {})
            /\ response'.connected =>
                    \E i \in StoredOnline :
                        /\ response'.url = servers[i].tailscale_url
                        /\ response'.models_count = Some(servers[i].models_count)]_vars

\* the health fields of a row
Health(server) == [f \in HealthFields |-> server[f]]

C27_WitnessUrl ==
    /\ response.op = "update"
    /\ response.code = 500
    /\ response.id \in DOMAIN servers

\* what C29 compares: status, last_error and models_count of a row
Outcome(server) == << server.status, server.last_error, server.models_count >>

C28_WitnessRejected ==
    /\ response.op = "create_chat"
    /\ response.code = 400
    /\ response.id \notin DOMAIN servers


-----------------------------------------------------------------------------
(* Automatic title and rename *)

\* C30: a generated title is stored only over the placeholder: when a turn
\* commits the title it generated, the chat's stored title is still "New
\* Chat", whatever renames of the chat were committed while the turn was
\* generating
C30_RenameNotOverwritten ==
    [][titleWrites' # titleWrites => chatTitle = NewChat]_vars


-----------------------------------------------------------------------------
(* The title's assignment, the order of commit and events *)

\* the title a successful call returned can be stored
UsableTitle == Get(title) # <<>> /\ Get(title) # NewChat

\* C32: after a successful title call the chat's title is overwritten exactly
\* when the produced title is not empty and is not "New Chat": the statement
\* of lines 105-108 leaves the session's title equal to the produced one in
\* that case and changes nothing otherwise, and the commit that follows
\* stores the produced title in that case and the unchanged one otherwise
C32_TitleOverwrittenIffUsable ==
    /\ [][(pc = "title_update" /\ pc' = "title_commit") =>
            IF UsableTitle
            THEN /\ pendingTitle' = title
                 /\ Get(title) # SessionTitle
            ELSE /\ pendingTitle' = pendingTitle
                 /\ dbChat' = dbChat]_vars
    /\ [][(pc = "title_commit" /\ pc' = "emit_done" /\ ~IsNone(title)) =>
            Get(dbChat').title =
                IF UsableTitle THEN Get(title) ELSE Get(dbChat).title]_vars

\* the first call returned "W" and the chat's stored title is now "W"
C32_Witness ==
    /\ pc = "emit_done"
    /\ backendCalls[2] = 1
    /\ title = Some(<<"W">>)
    /\ Get(dbChat).title = <<"W">>

\* the first call returned the placeholder itself and the title is unchanged
C32_WitnessPlaceholder ==
    /\ pc = "emit_done"
    /\ backendCalls[2] = 1
    /\ title = Some(NewChat)
    /\ Get(dbChat).title = NewChat

\* the first call returned quotes only, cleaned to the empty title
C32_WitnessEmpty ==
    /\ pc = "emit_done"
    /\ backendCalls[2] = 1
    /\ title = Some(<<>>)
    /\ Get(dbChat).title = NewChat


\* both rows of the turn are committed, the assistant row after the user row
TurnCommitted(rows) ==
    /\ TurnRows(rows, "user") = << UserRow(message) >>
    /\ TurnRows(rows, "assistant") = << AssistantRow(full_response) >>
    /\ Len(rows) >= 2
    /\ rows[Len(rows) - 1] = UserRow(message)
    /\ Last(rows) = AssistantRow(full_response)

\* C35: when the done event is handed to the caller the turn's user row and
\* assistant row are already committed: they are in committed storage in the
\* state the event is emitted from, the session holds nothing uncommitted,
\* and they stay committed once the caller has the event
C35_CommittedBeforeDone ==
    /\ [][(events' # events /\ IsDone(Last(events'))) =>
            /\ TurnCommitted(dbMessages)
            /\ pending = <<>>]_vars
    /\ [](DoneEmitted => TurnCommitted(dbMessages) /\ pending = <<>>)

\* the caller has the done event of a turn that streamed two fragments
C35_Witness ==
    /\ pc = "at_terminal_yield"
    /\ DoneEmitted
    /\ Len(fragments) = 2
    /\ TurnCommitted(dbMessages)


ErrorEmitted == \E i \in 1..Len(events) : IsError(events[i])

\* C36 as claimed: when the caller has received an error event, storage holds
\* no assistant row of the turn, whichever statement of the turn failed
C36_NoAssistantTurnAfterError ==
    ErrorEmitted => TurnRows(dbMessages, "assistant") = <<>>


-----------------------------------------------------------------------------
(* The order of the list sent to the backend *)

\* the turns persisted before this one, in created_at order
History == SelectSeq(dbMessages, LAMBDA r : r.turn = 0)

PositionsOf(text, token) == { i \in 1..Len(text) : text[i] = token }

\* the i-th smallest of a set of positions
Nth(positions, i) ==
    CHOOSE p \in positions : Cardinality({ q \in positions : q < p }) = i - 1

\* the file names a text mentions, in the order it mentions them
NamesIn(text) ==
    SelectSeq(text, LAMBDA x : x \in { f.filename : f \in ProjectFiles })

\* text holds part at position p
HoldsAt(text, part, p) ==
    /\ p + Len(part) - 1 <= Len(text)
    /\ SubSeq(text, p, p + Len(part) - 1) = part

C34_WitnessNoProject ==
    /\ pc = "save_user"
    /\ IsNone(dbProject)
    /\ Len(History) = 2
    /\ Len(ollama_messages) = 3
    /\ ollama_messages[1].role = "user"


-----------------------------------------------------------------------------
(* The generated title *)

\* C33 as claimed: whatever the title model replied, the title that
\* generate_chat_title returns has at most 50 characters, holds no single or
\* double quote, holds no newline, carriage return or tab, and neither begins
\* nor ends with whitespace
C33_TitleClean ==
    ~IsNone(generated) =>
        LET t == Get(generated)
        IN  /\ Len(t) <= 50
            /\ \A i \in 1..Len(t) : t[i] \notin {"'", "\"", "\n", "\r", "\t"}
            /\ t # <<>> => ~IsSpace(t[1]) /\ ~IsSpace(t[Len(t)])

C31_WitnessUnusable ==
    /\ Len(titlesAfter) = 2
    /\ titlesAfter[1].completed
    /\ titlesAfter[2].completed
    /\ generated = Some(<<>>)
    /\ backendCalls[2] = 2
    /\ Get(dbChat).title = NewChat

\* the backend failed every attempt of both calls
C31_WitnessFailing ==
    /\ Len(titlesAfter) = 2
    /\ titlesAfter[1].completed
    /\ titlesAfter[2].completed
    /\ IsNone(reply)
    /\ backendCalls[2] = 4
    /\ Get(dbChat).title = NewChat


-----------------------------------------------------------------------------
(* A cancelled pass *)

\* the loop's task is ended by cancellation inside a pass whose commit is not
\* under way: at the select, or at the rollback after a failed select or commit
PassCancelledUncommitted ==
    /\ hmPc \in {"load", "check", "rollback"}
    /\ hmPc' = "cancelled"

\* C38: a pass that stop() cancels before its commit stores none of its
\* updates: the cancellation leaves every server row as it is and drops what
\* the session holds; no step of a pass before its commit changes a row, so
\* the rows are those of the pass's beginning; and while the session holds
\* updates the stored rows are still the rows the pass loaded
C38_CancelledPassStoresNothing ==
    /\ [][PassCancelledUncommitted =>
            /\ servers' = servers
            /\ hmSession' = NoRows]_vars
    /\ [][(hmPc \in {"load", "check", "rollback"}) => servers' = servers]_vars
    /\ [](hmSession # NoRows =>
            \A i \in DOMAIN hmLoaded : servers[i] = hmLoaded[i])

\* a first pass was committed and a later pass was cancelled while its select
\* was awaited: the rows are those the first pass stored
C38_Witness ==
    /\ hmPc = "cancelled"
    /\ hmLast = "cancelled"
    /\ hmSession = NoRows
    /\ 1 \in DOMAIN hmLoaded
    /\ hmLoaded[1].status = "unknown"
    /\ servers[1].status = "error"
    /\ ~IsNone(servers[1].last_error)

\* the first pass was cancelled before it loaded a row, or after it had
\* checked its server and its commit had failed: the rows are the initial rows
C38_WitnessFirstPass ==
    /\ hmPc = "cancelled"
    /\ hmLast = "cancelled"
    /\ hmSession = NoRows
    /\ servers = [i \in ServerIds |-> NewServer(i = 1)]


-----------------------------------------------------------------------------
(* Status and error text *)

\* C37: whatever sequence of server creations, updates, manual checks and
\* monitor passes has run one after the other, a stored server whose status
\* is online has no error text
C37_OnlineHasNoError ==
    \A i \in DOMAIN servers :
        servers[i].status = "online" => IsNone(servers[i].last_error)

\* a pass has committed after an update made a server inactive: that server
\* is still online with no error text, the server the pass checked holds the
\* text of its error
C37_Witness ==
    /\ hmLast = "committed"
    /\ response.op = "update"
    /\ response.code = 200
    /\ \E i, j \in DOMAIN servers :
            /\ servers[i].status = "online"
            /\ ~servers[i].is_active
            /\ IsNone(servers[i].last_error)
            /\ servers[j].status = "error"
            /\ ~IsNone(servers[j].last_error)

=============================================================================
